---- MODULE Spec2Model ----
(***************************************************************************)
(* Model of the Starknet token alert bot: the dedup store and registry     *)
(* (database.py), the provider adapter and metrics calculator              *)
(* (starknet_monitor.py) and the dispatch loop, alert delivery and         *)
(* operator commands (telegram_bot.py).                                    *)
(*                                                                         *)
(* Text is modelled as a sequence of one-character strings, JSON values    *)
(* as tagged records, Python dicts as records read with Get (dict.get).    *)
(* Real numbers are exact decimals [m, e] standing for m * 10^(-e); float  *)
(* rounding is not modelled.                                               *)
(***************************************************************************)
EXTENDS Integers, Sequences, FiniteSets, Bags, TLC

(***************************************************************************)
(* Bounds of the model.                                                    *)
(***************************************************************************)
\* largest number of records in one upstream response of the dispatch loop
MaxRecords == 2
\* largest number of records in one upstream response of the adapter alone
MaxBatch == 2
\* largest update id Telegram gives (the ids are positive)
MaxUpdateId == 3
\* largest number of updates in one reply to getUpdates
MaxPollBatch == 2

\* destinations (chat ids) of the model
Chats == {1, 2}

(***************************************************************************)
(* Text helpers.                                                           *)
(***************************************************************************)
Uppers == <<"A","B","C","D","E","F","G","H","I","J","K","L","M",
            "N","O","P","Q","R","S","T","U","V","W","X","Y","Z">>

Lowers == <<"a","b","c","d","e","f","g","h","i","j","k","l","m",
            "n","o","p","q","r","s","t","u","v","w","x","y","z">>

\* position of the first occurrence of c, 0 when there is none
IndexIn(c, alphabet) ==
    IF \E i \in 1..Len(alphabet) : alphabet[i] = c
    THEN CHOOSE i \in 1..Len(alphabet) :
            alphabet[i] = c /\ \A j \in 1..(i - 1) : alphabet[j] # c
    ELSE 0

IsLetter(c) == IndexIn(c, Uppers) > 0 \/ IndexIn(c, Lowers) > 0

LowerChar(c) == IF IndexIn(c, Uppers) > 0 THEN Lowers[IndexIn(c, Uppers)] ELSE c

UpperChar(c) == IF IndexIn(c, Lowers) > 0 THEN Uppers[IndexIn(c, Lowers)] ELSE c

\* str.lower()
Lower(s) == [i \in 1..Len(s) |-> LowerChar(s[i])]

\* str.upper()
Upper(s) == [i \in 1..Len(s) |-> UpperChar(s[i])]

\* str.title(): a letter that follows a non-letter is upper-cased, others lower-cased
Title(s) ==
    [i \in 1..Len(s) |->
        IF i = 1 \/ ~IsLetter(s[i - 1]) THEN UpperChar(s[i]) ELSE LowerChar(s[i])]

\* needle in haystack
Contains(haystack, needle) ==
    \E i \in 0..(Len(haystack) - Len(needle)) :
        \A j \in 1..Len(needle) : haystack[i + j] = needle[j]

\* str.startswith
StartsWith(s, prefix) ==
    /\ Len(s) >= Len(prefix)
    /\ \A j \in 1..Len(prefix) : s[j] = prefix[j]

\* n copies of the character c
Rep(c, n) == [i \in 1..n |-> c]

\* dict.get(key, default)
Get(d, key, default) == IF key \in DOMAIN d THEN d[key] ELSE default

(***************************************************************************)
(* Numbers.                                                                *)
(***************************************************************************)
Num(m, e) == [m |-> m, e |-> e]

Zero == Num(0, 0)

Min2(a, b) == IF a <= b THEN a ELSE b

RECURSIVE GeqMul(_, _, _)
\* a * 10^k >= b, for a, b >= 0, without forming 10^k
GeqMul(a, k, b) ==
    IF k = 0 \/ a >= b THEN a >= b
    ELSE IF a = 0 THEN FALSE
    ELSE GeqMul(a * 10, k - 1, b)

\* x >= y for non-negative decimals
NumGeq(x, y) ==
    LET d  == Min2(x.e, y.e)
        ex == x.e - d
        ey == y.e - d
    IN  IF ex = 0 THEN GeqMul(x.m, ey, y.m)
        ELSE ~GeqMul(y.m, ex, x.m + 1)

NumEq(x, y) == NumGeq(x, y) /\ NumGeq(y, x)

\* float('nan'): every comparison with it is false
NaN == [nan |-> TRUE]

\* x < 0
NumNeg(x) == x # NaN /\ x.m < 0

DecDigits == <<"0","1","2","3","4","5","6","7","8","9">>

HexDigits == <<"0","1","2","3","4","5","6","7","8","9","a","b","c","d","e","f">>

RECURSIVE DigitsValue(_, _, _)
\* value of a non-empty digit string in the base Len(digits); fails on any other character
DigitsValue(s, digits, acc) ==
    IF s = <<>> THEN [ok |-> TRUE, val |-> acc]
    ELSE IF IndexIn(LowerChar(Head(s)), digits) = 0 THEN [ok |-> FALSE]
    ELSE DigitsValue(Tail(s), digits, acc * Len(digits) + IndexIn(LowerChar(Head(s)), digits) - 1)

\* int(s) / int(s, 16): optional sign, optional 0x prefix in base 16, then digits
ParseInt(s, base) ==
    LET neg    == s # <<>> /\ Head(s) = "-"
        body   == IF neg THEN Tail(s) ELSE s
        digits == IF base = 16 THEN HexDigits ELSE DecDigits
        rest   == IF base = 16 /\ StartsWith(Lower(body), <<"0", "x">>)
                  THEN SubSeq(body, 3, Len(body)) ELSE body
        r      == DigitsValue(rest, digits, 0)
    IN  IF rest = <<>> \/ ~r.ok THEN [ok |-> FALSE]
        ELSE [ok |-> TRUE, val |-> IF neg THEN 0 - r.val ELSE r.val]

\* float(s) on texts of the form [-]digits[.digits] and on "nan" in any case
ParseFloat(s) ==
    LET neg  == s # <<>> /\ Head(s) = "-"
        body == IF neg THEN Tail(s) ELSE s
        dot  == IndexIn(".", body)
        ip   == IF dot = 0 THEN body ELSE SubSeq(body, 1, dot - 1)
        fp   == IF dot = 0 THEN <<>> ELSE SubSeq(body, dot + 1, Len(body))
        r    == DigitsValue(ip \o fp, DecDigits, 0)
    IN  IF Lower(body) = <<"n", "a", "n">> THEN [ok |-> TRUE, val |-> NaN]
        ELSE IF ip \o fp = <<>> \/ ~r.ok THEN [ok |-> FALSE]
        ELSE [ok |-> TRUE, val |-> Num(IF neg THEN 0 - r.val ELSE r.val, Len(fp))]

\* str.replace(c, '')
RECURSIVE RemoveChar(_, _)
RemoveChar(s, c) ==
    IF s = <<>> THEN <<>>
    ELSE IF Head(s) = c THEN RemoveChar(Tail(s), c)
    ELSE <<Head(s)>> \o RemoveChar(Tail(s), c)

\* the first n elements of s (s[:n])
Take(s, n) == SubSeq(s, 1, Min2(n, Len(s)))

\* JSON values: text, number, null
S(chars) == [t |-> "str", v |-> chars]

N(int) == [t |-> "num", v |-> int]

Null == [t |-> "null"]

\* Python None and the empty dict {}
None == [none |-> TRUE]

EmptyDict == <<>>

\* truth value of an Optional[Dict]
Truthy(d) == d # None /\ d # EmptyDict

(***************************************************************************)
(* database.py: the registry (group_configs) is a function from chat_id to *)
(* its row, the dedup store (last_transactions) a bag of <<chat_id,        *)
(* tx_hash>> rows.                                                         *)
(***************************************************************************)
\* mutant of PrimaryKeyConflict: the table has no primary key
PrimaryKeyMissing(table, row) == FALSE

\* PRIMARY KEY (chat_id, tx_hash): inserting row would violate the key
PrimaryKeyConflict(table, row) == BagIn(row, table)

\* INSERT OR IGNORE INTO last_transactions; the result is rowcount > 0
add_transaction(table, chat_id, tx_hash) ==
    LET row == <<chat_id, tx_hash>>
    IN  IF PrimaryKeyConflict(table, row)
        THEN [table |-> table, result |-> FALSE, raised |-> FALSE]
        ELSE [table |-> table (+) SetToBag({row}), result |-> TRUE, raised |-> FALSE]

\* mutant of is_transaction_processed: the row is looked up by its hash alone
is_transaction_processed_any_chat(table, chat_id, tx_hash) ==
    \E row \in BagToSet(table) : row[2] = tx_hash

\* SELECT 1 FROM last_transactions WHERE chat_id = ? AND tx_hash = ?
is_transaction_processed(table, chat_id, tx_hash) == BagIn(<<chat_id, tx_hash>>, table)

\* the value SQLite stores for a REAL parameter: NaN is stored as NULL
BindReal(x) == IF x = NaN THEN None ELSE x

\* INSERT OR REPLACE INTO group_configs
save_group_config(configs, chat_id, config) ==
    [c \in DOMAIN configs \cup {chat_id} |->
        IF c = chat_id
        THEN [token_address     |-> config.token_address,
              token_symbol      |-> config.token_symbol,
              dex_name          |-> config.dex_name,
              total_supply      |-> config.total_supply,
              min_buy_threshold |-> BindReal(Get(config, "min_buy_threshold", Zero)),
              alert_frequency   |-> Get(config, "alert_frequency", "every_buy"),
              is_active         |-> Get(config, "is_active", TRUE)]
        ELSE configs[c]]

\* UPDATE group_configs SET is_active = ? WHERE chat_id = ?; the result is rowcount > 0
toggle_group_active(configs, chat_id, is_active) ==
    IF chat_id \in DOMAIN configs
    THEN [configs |-> [configs EXCEPT ![chat_id].is_active = is_active], result |-> TRUE]
    ELSE [configs |-> configs, result |-> FALSE]

\* one row of get_all_active_groups: the is_active column is not selected
ActiveRow(configs, c) ==
    [chat_id           |-> c,
     token_address     |-> configs[c].token_address,
     token_symbol      |-> configs[c].token_symbol,
     dex_name          |-> configs[c].dex_name,
     total_supply      |-> configs[c].total_supply,
     min_buy_threshold |-> configs[c].min_buy_threshold,
     alert_frequency   |-> configs[c].alert_frequency]

RECURSIVE RowsFrom(_, _, _)
\* the rows with is_active = 1 among chat ids c..last, in rowid (chat_id) order
RowsFrom(configs, c, last) ==
    IF c > last THEN <<>>
    ELSE (IF c \in DOMAIN configs /\ configs[c].is_active
          THEN <<ActiveRow(configs, c)>> ELSE <<>>) \o RowsFrom(configs, c + 1, last)

\* mutant of get_all_active_groups: the WHERE is_active = 1 is missing
get_all_groups(configs) ==
    IF DOMAIN configs = {} THEN <<>>
    ELSE RowsFrom([c \in DOMAIN configs |-> [configs[c] EXCEPT !.is_active = TRUE]],
                  CHOOSE c \in DOMAIN configs : \A o \in DOMAIN configs : c <= o,
                  CHOOSE c \in DOMAIN configs : \A o \in DOMAIN configs : c >= o)

\* SELECT ... FROM group_configs WHERE is_active = 1
get_all_active_groups(configs) ==
    IF DOMAIN configs = {} THEN <<>>
    ELSE RowsFrom(configs,
                  CHOOSE c \in DOMAIN configs : \A o \in DOMAIN configs : c <= o,
                  CHOOSE c \in DOMAIN configs : \A o \in DOMAIN configs : c >= o)

(***************************************************************************)
(* starknet_monitor.py: provider adapter.                                  *)
(*                                                                         *)
(* An HTTP exchange is [kind |-> "ok", status, body] or [kind |-> "error"] *)
(* (timeout, connection error, malformed JSON: the call raises).           *)
(* An event carries tx_hash, type, amount_usd and amount_token; the fields *)
(* that are only displayed (amount_base, base_currency, timestamp, buyer)  *)
(* are left out.                                                           *)
(***************************************************************************)
HttpOk == 200

\* assumed token decimals: amount / 1e18
TokenDecimals == 18

\* assumed base price: amount_tokens * 3700
EthPrice == 3700

\* Voyager placeholder conversion: amount * 0.001
VoyagerUsdDecimals == 3

\* transactions[:10]
StarkScanLimit == 10

\* mutant of CleanAddress: the address is used as given
CleanAddressUncut(token_address) == token_address

\* token_address.split('-')[0] if '-' in token_address else token_address
CleanAddress(token_address) ==
    IF IndexIn("-", token_address) > 0
    THEN SubSeq(token_address, 1, IndexIn("-", token_address) - 1)
    ELSE token_address

\* the request each provider call sends
DexScreenerCall(clean_address) == [api |-> "dexscreener", address |-> clean_address]

StarkScanCall(clean_address) == [api |-> "starkscan", address |-> clean_address]

VoyagerCall(clean_address) == [api |-> "voyager", address |-> clean_address]

Transfer == <<"t","r","a","n","s","f","e","r">>

\* a StarkScan event record becomes an event, or None
_parse_starkscan_event(event_data) ==
    LET name == Get(event_data, "name", S(<<>>))
        data == Get(event_data, "data", <<>>)
        amount_hex == data[3]
        amount == IF StartsWith(amount_hex.v, <<"0", "x">>)
                  THEN ParseInt(amount_hex.v, 16) ELSE ParseInt(amount_hex.v, 10)
    IN  IF name.t # "str" THEN None
        ELSE IF ~Contains(Lower(name.v), Transfer) THEN None
        ELSE IF Len(data) < 3 THEN None
        ELSE IF amount_hex.t # "str" THEN None
        ELSE IF ~amount.ok THEN None
        ELSE [tx_hash      |-> Get(event_data, "transaction_hash", ""),
              type         |-> "buy",
              amount_usd   |-> Num(amount.val * EthPrice, TokenDecimals),
              amount_token |-> Num(amount.val, TokenDecimals)]

\* a Voyager transaction record becomes an event, or None
_parse_voyager_transaction(tx_data) ==
    LET amount == Get(tx_data, "amount", N(0))
    IN  IF Get(tx_data, "type", "") # "transfer" THEN None
        ELSE IF amount.t # "num" THEN None
        ELSE [tx_hash      |-> Get(tx_data, "hash", ""),
              type         |-> "buy",
              amount_usd   |-> Num(amount.v, VoyagerUsdDecimals),
              amount_token |-> Num(amount.v, 0)]

RECURSIVE ParseAll(_, _)
\* the records that parse, in order; kind selects the parser
ParseAll(records, kind) ==
    IF records = <<>> THEN <<>>
    ELSE LET parsed_tx == IF kind = "starkscan"
                          THEN _parse_starkscan_event(Head(records))
                          ELSE _parse_voyager_transaction(Head(records))
         IN  (IF Truthy(parsed_tx) THEN <<parsed_tx>> ELSE <<>>)
                 \o ParseAll(Tail(records), kind)

_fetch_starkscan_transactions(response) ==
    IF response.kind # "ok" THEN <<>>
    ELSE IF response.status # HttpOk THEN <<>>
    ELSE Take(ParseAll(Get(response.body, "data", <<>>), "starkscan"), StarkScanLimit)

\* mutant of _fetch_voyager_transactions: the status of the response is not checked
_fetch_voyager_transactions_any_status(response) ==
    IF response.kind # "ok" THEN <<>>
    ELSE ParseAll(Get(response.body, "items", <<>>), "voyager")

_fetch_voyager_transactions(response) ==
    IF response.kind # "ok" THEN <<>>
    ELSE IF response.status # HttpOk THEN <<>>
    ELSE ParseAll(Get(response.body, "items", <<>>), "voyager")

\* mutant of get_recent_transactions: no fallback to Voyager
get_recent_transactions_no_fallback(starkscan_response, voyager_response) ==
    _fetch_starkscan_transactions(starkscan_response)

\* mutant of get_recent_transactions: when neither source gave an event a
\* mock event is returned
get_recent_transactions_mock(starkscan_response, voyager_response) ==
    IF _fetch_starkscan_transactions(starkscan_response) # <<>>
    THEN _fetch_starkscan_transactions(starkscan_response)
    ELSE IF _fetch_voyager_transactions(voyager_response) # <<>>
    THEN _fetch_voyager_transactions(voyager_response)
    ELSE << [tx_hash |-> "mock", type |-> "buy",
             amount_usd |-> Num(100, 0), amount_token |-> Num(1000, 0)] >>

\* the events returned for the two exchanges; Voyager is asked only when
\* StarkScan gave no event
get_recent_transactions(starkscan_response, voyager_response) ==
    IF _fetch_starkscan_transactions(starkscan_response) # <<>>
    THEN _fetch_starkscan_transactions(starkscan_response)
    ELSE IF _fetch_voyager_transactions(voyager_response) # <<>>
    THEN _fetch_voyager_transactions(voyager_response)
    ELSE <<>>

\* mutant of RecentTransactionsCalls: Voyager is asked in every case
RecentTransactionsCallsBoth(token_address, starkscan_transactions) ==
    <<StarkScanCall(CleanAddress(token_address)),
      VoyagerCall(CleanAddress(token_address))>>

\* the provider calls get_recent_transactions makes, in order, given the
\* events StarkScan gave
RecentTransactionsCalls(token_address, starkscan_transactions) ==
    IF starkscan_transactions # <<>>
    THEN <<StarkScanCall(CleanAddress(token_address))>>
    ELSE <<StarkScanCall(CleanAddress(token_address)),
           VoyagerCall(CleanAddress(token_address))>>

(***************************************************************************)
(* starknet_monitor.py: market snapshot and metrics.                       *)
(***************************************************************************)
\* float(v) of a JSON value
ToFloat(v) ==
    IF v.t = "num" THEN [ok |-> TRUE, val |-> Num(v.v, 0)]
    ELSE IF v.t = "str" THEN ParseFloat(v.v)
    ELSE [ok |-> FALSE]

\* pair_data.get(outer, {}).get(inner, 0); raises when the outer value is not a dict
Nested(pair_data, outer, inner) ==
    LET o == Get(pair_data, outer, EmptyDict)
    IN  IF o = Null THEN [ok |-> FALSE]
        ELSE ToFloat(Get(o, inner, N(0)))

_format_token_data(pair_data) ==
    LET price     == ToFloat(Get(pair_data, "priceUsd", N(0)))
        cap       == ToFloat(Get(pair_data, "marketCap", N(0)))
        volume    == Nested(pair_data, "volume", "h24")
        change    == Nested(pair_data, "priceChange", "h24")
        liquidity == Nested(pair_data, "liquidity", "usd")
    IN  IF price.ok /\ cap.ok /\ volume.ok /\ change.ok /\ liquidity.ok
        THEN [price_usd        |-> price.val,
              market_cap       |-> cap.val,
              volume_24h       |-> volume.val,
              price_change_24h |-> change.val,
              liquidity_usd    |-> liquidity.val,
              dex_id           |-> Get(pair_data, "dexId", <<>>)]
        ELSE EmptyDict

\* mutant of MatchingPair: the comparison does not ignore case
MatchingPairExactCase(pairs, dex_name) ==
    IF \E i \in 1..Len(pairs) : Contains(Get(pairs[i], "dexId", <<>>), dex_name)
    THEN CHOOSE i \in 1..Len(pairs) :
            /\ Contains(Get(pairs[i], "dexId", <<>>), dex_name)
            /\ \A j \in 1..(i - 1) : ~Contains(Get(pairs[j], "dexId", <<>>), dex_name)
    ELSE 0

\* the first pair whose dexId contains dex_name, ignoring case; 0 when none does
MatchingPair(pairs, dex_name) ==
    IF \E i \in 1..Len(pairs) : Contains(Lower(Get(pairs[i], "dexId", <<>>)), Lower(dex_name))
    THEN CHOOSE i \in 1..Len(pairs) :
            /\ Contains(Lower(Get(pairs[i], "dexId", <<>>)), Lower(dex_name))
            /\ \A j \in 1..(i - 1) :
                  ~Contains(Lower(Get(pairs[j], "dexId", <<>>)), Lower(dex_name))
    ELSE 0

get_token_data(dex_name, response) ==
    IF response.kind # "ok" THEN None
    ELSE IF response.status # HttpOk THEN None
    ELSE LET pairs == Get(response.body, "pairs", <<>>)
         IN  IF pairs = <<>> THEN None
             ELSE IF MatchingPair(pairs, dex_name) > 0
             THEN _format_token_data(pairs[MatchingPair(pairs, dex_name)])
             ELSE _format_token_data(pairs[1])

\* mutant of SupplyPercentage: a fraction, not a percentage
SupplyFraction(amount_bought, total_supply) ==
    IF total_supply > 0
    THEN [num |-> amount_bought.m, den |-> total_supply, e |-> amount_bought.e]
    ELSE [num |-> 0, den |-> 1, e |-> 0]

\* (amount_bought / total_supply) * 100 as the fraction
\* num / (den * 10^e), or 0
SupplyPercentage(amount_bought, total_supply) ==
    IF total_supply > 0
    THEN [num |-> amount_bought.m * 100, den |-> total_supply, e |-> amount_bought.e]
    ELSE [num |-> 0, den |-> 1, e |-> 0]

HolderCount == 143

\* mutant of calculate_buy_metrics: without token data the payload is built
\* all the same, with a price and a market cap of 0
calculate_buy_metrics_degraded(transaction, token_config, response) ==
    LET token_data == get_token_data(token_config.dex_name, response)
        amount_bought == Get(transaction, "amount_token", Zero)
    IN  [spent_usd         |-> Get(transaction, "amount_usd", Zero),
         bought_amount     |-> amount_bought,
         supply_percentage |-> SupplyPercentage(amount_bought, token_config.total_supply),
         current_price     |-> IF Truthy(token_data) THEN Get(token_data, "price_usd", Zero)
                               ELSE Zero,
         market_cap        |-> IF Truthy(token_data) THEN Get(token_data, "market_cap", Zero)
                               ELSE Zero,
         total_supply      |-> token_config.total_supply,
         holder_count      |-> HolderCount,
         tx_hash           |-> Get(transaction, "tx_hash", ""),
         token_symbol      |-> token_config.token_symbol]

calculate_buy_metrics(transaction, token_config, response) ==
    LET token_data == get_token_data(token_config.dex_name, response)
        amount_bought == Get(transaction, "amount_token", Zero)
    IN  IF ~Truthy(token_data) THEN EmptyDict
        ELSE [spent_usd         |-> Get(transaction, "amount_usd", Zero),
              bought_amount     |-> amount_bought,
              supply_percentage |-> SupplyPercentage(amount_bought, token_config.total_supply),
              current_price     |-> Get(token_data, "price_usd", Zero),
              market_cap        |-> Get(token_data, "market_cap", Zero),
              total_supply      |-> token_config.total_supply,
              holder_count      |-> HolderCount,
              tx_hash           |-> Get(transaction, "tx_hash", ""),
              token_symbol      |-> token_config.token_symbol]

(***************************************************************************)
(* telegram_bot.py: /setup validation.                                     *)
(***************************************************************************)
MinAddressLen == 60

MaxSymbolLen == 10

SetupArgCount == 5

\* the config fast_setup_command builds from its arguments, or None when it
\* replies with the usage text or a validation error
SetupConfig(args) ==
    LET token_address == args[1]
        symbol        == args[2]
        dex           == args[3]
        supply        == ParseInt(RemoveChar(args[4], ","), 10)
        threshold     == ParseFloat(args[5])
    IN  IF Len(args) < SetupArgCount THEN None
        ELSE IF ~StartsWith(token_address, <<"0", "x">>) \/ Len(token_address) < MinAddressLen
        THEN None
        ELSE IF Len(symbol) < 1 \/ Len(symbol) > MaxSymbolLen THEN None
        ELSE IF ~supply.ok THEN None
        ELSE IF ~threshold.ok THEN None
        ELSE IF supply.val <= 0 THEN None
        ELSE IF NumNeg(threshold.val) THEN None
        ELSE [token_address     |-> token_address,
              token_symbol      |-> Upper(symbol),
              dex_name          |-> Title(dex),
              total_supply      |-> supply.val,
              min_buy_threshold |-> threshold.val,
              alert_frequency   |-> "every_buy",
              is_active         |-> TRUE]

\* the admin check of fast_setup_command; chat_member is None when the
\* getChatMember request failed
SetupAllowed(chat_type, chat_member) ==
    ~(/\ chat_type \in {"group", "supergroup"}
      /\ chat_member # None
      /\ chat_member.status \notin {"creator", "administrator"})

\* get_chat_member: the member record of the reply, None when the request
\* fails or is answered with an error status
get_chat_member(response) ==
    IF response.kind # "ok" THEN None
    ELSE IF response.status # HttpOk THEN None
    ELSE response.body.result

\* the registry after fast_setup_command for a message of chat_id
SetupResult(configs, chat_id, chat_type, chat_member, args) ==
    IF ~SetupAllowed(chat_type, chat_member) THEN configs
    ELSE IF SetupConfig(args) = None THEN configs
    ELSE save_group_config(configs, chat_id, SetupConfig(args))

\* max() of two integers
Max2(a, b) == IF a >= b THEN a ELSE b

\* the largest update_id of a batch, 0 for an empty batch
MaxOf(batch) ==
    IF batch = <<>> THEN 0
    ELSE CHOOSE m \in { batch[i].update_id : i \in 1..Len(batch) } :
            \A i \in 1..Len(batch) : batch[i].update_id <= m

(***************************************************************************)
(* Inputs of the model.                                                    *)
(***************************************************************************)
AddrPlain == <<"0", "x">> \o Rep("a", 58)

AddrDash == <<"0", "x">> \o Rep("b", 58) \o <<"-", "e", "x", "t", "r", "a">>

AddrShort == <<"0", "x", "A", "B", "C">>

SymEth == <<"e", "t", "h">>

DexEkubo == <<"e", "k", "u", "b", "o">>

\* the argument lists of the /setup commands operators send
SetupTexts ==
    { <<AddrDash, SymEth, DexEkubo, <<"1",",","0","0","0",",","0","0","0">>, <<"5","0">>>>,
      <<AddrDash, SymEth, DexEkubo, <<"1","0","0","0","0","0","0">>, <<"n","a","n">>>>,
      <<AddrDash, SymEth, DexEkubo, <<"1","0","0","0","0","0","0">>>>,
      <<AddrShort, SymEth, DexEkubo, <<"1","0","0","0","0","0","0">>, <<"5","0">>>>,
      <<AddrDash, Rep("x", 11), DexEkubo, <<"1","0","0","0","0","0","0">>, <<"5","0">>>>,
      <<AddrDash, SymEth, DexEkubo, <<"0">>, <<"5","0">>>>,
      <<AddrDash, SymEth, DexEkubo, <<"1","0","0","0","0","0","0">>, <<"-","1">>>>,
      <<AddrDash, SymEth, DexEkubo, <<"1","0","0","0","0","0","0">>, <<"x">>>> }

ChatTypes == {"private", "group", "supergroup"}

ChatMembers == {None, [status |-> "creator"], [status |-> "administrator"],
                [status |-> "member"]}

\* what the /setup commands of the operators come to: the configs saved, and
\* None for a command that saves nothing
SetupOutcomes ==
    { IF SetupAllowed(chat_type, chat_member) THEN SetupConfig(args) ELSE None :
         chat_type \in ChatTypes, chat_member \in ChatMembers, args \in SetupTexts }

\* the chat whose operator sends a threshold of "nan", and the chat whose
\* operator sends /pause and /resume
NanChats == {1}

PausingChats == {2}

\* what the /setup commands sent in chat_id come to
SetupOutcomesOf(chat_id) ==
    { o \in SetupOutcomes : o = None \/ o.min_buy_threshold # NaN \/ chat_id \in NanChats }

\* event hashes upstream records carry
Hashes == {"h1"}

\* StarkScan event records
StarkScanRecords ==
    { [name |-> S(<<"T","r","a","n","s","f","e","r">>),
       data |-> <<S(<<"0","x","1">>), S(<<"0","x","2">>), S(<<"0","x","1","0">>)>>,
       transaction_hash |-> "h1"],
      [name |-> S(<<"T","r","a","n","s","f","e","r">>),
       data |-> <<S(<<"0","x","1">>), S(<<"0","x","2">>), S(<<"z","z">>)>>,
       transaction_hash |-> "h1"] }

\* Voyager transaction records
VoyagerRecords ==
    { [type |-> "transfer", amount |-> N(50000), hash |-> "h1"],
      [type |-> "transfer", amount |-> N(75000)],
      [type |-> "invoke", amount |-> N(90000), hash |-> "h1"] }

\* sequences over a set of records, of length 0..n
SeqUpTo(records, n) == UNION { [1..k -> records] : k \in 0..n }

ErrorResponses == { [kind |-> "error"], [kind |-> "ok", status |-> 500, body |-> EmptyDict] }

StarkScanResponses ==
    { [kind |-> "ok", status |-> HttpOk, body |-> [data |-> recs]] :
         recs \in SeqUpTo(StarkScanRecords, MaxRecords) } \cup ErrorResponses

\* the last one: a 500 answer whose body still carries a record
VoyagerResponses ==
    { [kind |-> "ok", status |-> HttpOk, body |-> [items |-> recs]] :
         recs \in SeqUpTo(VoyagerRecords, MaxRecords) } \cup ErrorResponses
    \cup { [kind |-> "ok", status |-> 500,
            body |-> [items |-> <<[type |-> "transfer", amount |-> N(75000)]>>]] }

\* the request raised, or was answered with a status other than 200
Failed(response) == response.kind # "ok" \/ response.status # HttpOk

\* what the two event sources come to: the events of StarkScan, the events
\* get_recent_transactions returns, and whether both sources failed
FetchOutcomes ==
    { [starkscan |-> _fetch_starkscan_transactions(a),
       voyager   |-> _fetch_voyager_transactions(b),
       result    |-> get_recent_transactions(a, b),
       failed    |-> Failed(a) /\ Failed(b)] :
         a \in StarkScanResponses, b \in VoyagerResponses }

\* DexScreener answers without a snapshot: a failure, or no pair for the token
NoSnapshotResponses ==
    ErrorResponses \cup { [kind |-> "ok", status |-> HttpOk, body |-> [pairs |-> <<>>]] }

DexScreenerResponses ==
    { [kind |-> "ok", status |-> HttpOk,
       body |-> [pairs |-> << [dexId |-> <<"e","k","u","b","o">>,
                               priceUsd |-> S(<<"1",".","5">>),
                               marketCap |-> N(1500000)] >>]] } \cup NoSnapshotResponses

(***************************************************************************)
(* State.                                                                  *)
(***************************************************************************)
VARIABLES
    group_configs,      \* database: the registry, chat_id -> row
    last_transactions,  \* database: the dedup store, a bag of <<chat_id, tx_hash>>
    pc,                 \* monitoring thread: where start_monitoring / monitor_token_purchases is
    token_configs,      \* monitoring thread: active_groups, the list the sweeps iterate
    cfg_idx,            \* monitoring thread: position of `config` in token_configs
    transactions,       \* monitoring thread: the events fetched for `config`
    tx_idx,             \* monitoring thread: position of `transaction` in transactions
    metrics,            \* monitoring thread: the payload handed to send_buy_alert
    send_result,        \* monitoring thread: whether send_message got a reply (ignored by the code)
    sleep_secs,         \* monitoring thread: the argument of the asyncio.sleep in progress, or 0
    out_calls,          \* history: the provider calls of the last step that made any
    fault,              \* history: the failure the last step of the monitoring thread logged, or ""
    delivered,          \* history: <<chat_id, tx_hash>> of the alerts delivered
    paused_at_sweep,    \* history: the chats of the sweep paused in the registry when it started
    unit                \* the call and result of the operation last applied on its own

vars == <<group_configs, last_transactions, pc, token_configs, cfg_idx, transactions,
          tx_idx, metrics, send_result, sleep_secs, out_calls, fault, delivered,
          paused_at_sweep, unit>>

db == <<group_configs, last_transactions>>

locals == <<token_configs, cfg_idx, transactions, tx_idx, metrics, send_result, sleep_secs>>

\* no group is configured, nothing was alerted, the monitoring thread starts
Init ==
    /\ group_configs = <<>>
    /\ last_transactions = EmptyBag
    /\ pc = "read"
    /\ token_configs = <<>>
    /\ cfg_idx = 0
    /\ transactions = <<>>
    /\ tx_idx = 0
    /\ metrics = EmptyDict
    /\ send_result = FALSE
    /\ sleep_secs = 0
    /\ out_calls = <<>>
    /\ fault = ""
    /\ delivered = {}
    /\ paused_at_sweep = {}
    /\ unit = <<>>

\* asyncio.sleep(60) of start_monitoring, with no active group
IdleInterval == 60

\* asyncio.sleep(15) of monitor_token_purchases, between two sweeps
SweepInterval == 15

\* asyncio.sleep(30) of monitor_token_purchases, after an exception in the sweep
ErrorInterval == 30

\* amount_usd >= min_threshold raises TypeError: the threshold column is NULL
ThresholdRaises(tx, cfg) == Get(cfg, "min_buy_threshold", Zero) = None

\* mutant of ThresholdMet: the boundary is exclusive (amount_usd > min_threshold)
ThresholdMetStrict(tx, cfg) ==
    /\ NumGeq(Get(tx, "amount_usd", Zero), Get(cfg, "min_buy_threshold", Zero))
    /\ ~NumGeq(Get(cfg, "min_buy_threshold", Zero), Get(tx, "amount_usd", Zero))

\* amount_usd >= min_threshold
ThresholdMet(tx, cfg) ==
    NumGeq(Get(tx, "amount_usd", Zero), Get(cfg, "min_buy_threshold", Zero))

\* the chats whose row has is_active = 0
PausedChats == { c \in DOMAIN group_configs : ~group_configs[c].is_active }

\* the chats of the configs that are paused in the registry
PausedAmong(configs) ==
    { c \in PausedChats : \E i \in 1..Len(configs) : configs[i].chat_id = c }

\* `config` and `transaction` of the loops of monitor_token_purchases
config == token_configs[cfg_idx]

transaction == transactions[tx_idx]

(***************************************************************************)
(* Operator commands (polling thread); the replies are not modelled.       *)
(***************************************************************************)
\* mutant of fast_setup_command: a setup also deletes the dedup entries of
\* the destination
fast_setup_command_clearing(chat_id, outcome) ==
    /\ group_configs' =
          IF outcome # None
          THEN save_group_config(group_configs, chat_id, outcome)
          ELSE group_configs
    /\ last_transactions' =
          IF outcome # None
          THEN [row \in { r \in BagToSet(last_transactions) : r[1] # chat_id }
                   |-> last_transactions[row]]
          ELSE last_transactions
    /\ UNCHANGED <<pc, locals, out_calls, fault, delivered, paused_at_sweep, unit>>

fast_setup_command(chat_id, outcome) ==
    /\ group_configs' =
          IF outcome # None
          THEN save_group_config(group_configs, chat_id, outcome)
          ELSE group_configs
    /\ UNCHANGED <<last_transactions, pc, locals, out_calls, fault, delivered, paused_at_sweep,
                   unit>>

pause_command(chat_id) ==
    /\ group_configs' = toggle_group_active(group_configs, chat_id, FALSE).configs
    /\ UNCHANGED <<last_transactions, pc, locals, out_calls, fault, delivered, paused_at_sweep,
                   unit>>

resume_command(chat_id) ==
    /\ group_configs' = toggle_group_active(group_configs, chat_id, TRUE).configs
    /\ UNCHANGED <<last_transactions, pc, locals, out_calls, fault, delivered, paused_at_sweep,
                   unit>>

(***************************************************************************)
(* Monitoring thread: start_monitoring and monitor_token_purchases.        *)
(* pc: "read" (before get_all_active_groups), "idle_sleep" (in the sleep   *)
(* of start_monitoring), "sweep_sleep" (in the sleep that ends a sweep),   *)
(* "error_sleep" (in the sleep after an exception in the sweep),           *)
(* "config" (head of the for loop over token_configs),                     *)
(* "event" (head of the for loop over transactions), "alert" (calling the  *)
(* callback), "record" (send_message returned).  A local that is not read  *)
(* again before it is assigned (transactions after the inner loop, metrics *)
(* after the callback) is reset to its initial value.                      *)
(***************************************************************************)
\* start_monitoring: read the registry, enter monitor_token_purchases or sleep;
\* get_all_active_groups logs a database error and returns [] (raised)
ReadRegistry ==
    /\ pc = "read"
    /\ \E raised \in BOOLEAN :
          LET active_groups == IF raised THEN <<>> ELSE get_all_active_groups(group_configs)
          IN  /\ IF active_groups # <<>>
                 THEN /\ token_configs' = active_groups
                      /\ cfg_idx' = 1
                      /\ pc' = "config"
                      /\ paused_at_sweep' = PausedAmong(active_groups)
                      /\ UNCHANGED sleep_secs
                 ELSE /\ pc' = "idle_sleep"
                      /\ sleep_secs' = IdleInterval
                      /\ UNCHANGED <<token_configs, cfg_idx, paused_at_sweep>>
              /\ fault' = IF raised THEN "registry" ELSE ""
    /\ out_calls' = <<>>
    /\ UNCHANGED <<db, transactions, tx_idx, metrics, send_result, delivered, unit>>

\* asyncio.sleep(60) is over: next iteration of the loop of start_monitoring
IdleWaitDone ==
    /\ pc = "idle_sleep"
    /\ pc' = "read"
    /\ sleep_secs' = 0
    /\ out_calls' = <<>>
    /\ fault' = ""
    /\ UNCHANGED <<db, token_configs, cfg_idx, transactions, tx_idx, metrics, send_result,
                   delivered, paused_at_sweep, unit>>

\* the next config of the sweep: fetch its recent transactions
FetchTransactions ==
    /\ pc = "config"
    /\ cfg_idx <= Len(token_configs)
    /\ IF ~Get(config, "is_active", TRUE)
       THEN /\ cfg_idx' = cfg_idx + 1
            /\ out_calls' = <<>>
            /\ fault' = ""
            /\ UNCHANGED <<pc, transactions, tx_idx>>
       ELSE \E fetched \in FetchOutcomes :
               /\ transactions' = fetched.result
               /\ out_calls' = RecentTransactionsCalls(config.token_address, fetched.starkscan)
               /\ fault' = IF fetched.failed THEN "sources" ELSE ""
               /\ tx_idx' = 1
               /\ pc' = "event"
               /\ UNCHANGED cfg_idx
    /\ UNCHANGED <<db, token_configs, metrics, send_result, sleep_secs, delivered,
                   paused_at_sweep, unit>>

\* mutant of EndSweep: the next sweep starts without the sleep
EndSweepNoWait ==
    /\ pc = "config"
    /\ cfg_idx > Len(token_configs)
    /\ cfg_idx' = 1
    /\ out_calls' = <<>>
    /\ fault' = ""
    /\ UNCHANGED <<db, pc, token_configs, transactions, tx_idx, metrics, send_result,
                   sleep_secs, delivered, paused_at_sweep, unit>>

\* every config was visited: sleep 15 seconds
EndSweep ==
    /\ pc = "config"
    /\ cfg_idx > Len(token_configs)
    /\ pc' = "sweep_sleep"
    /\ sleep_secs' = SweepInterval
    /\ out_calls' = <<>>
    /\ fault' = ""
    /\ UNCHANGED <<db, token_configs, cfg_idx, transactions, tx_idx, metrics, send_result,
                   delivered, paused_at_sweep, unit>>

\* asyncio.sleep(15) is over: the next sweep starts, over the same token_configs
SweepWaitDone ==
    /\ pc = "sweep_sleep"
    /\ pc' = "config"
    /\ cfg_idx' = 1
    /\ sleep_secs' = 0
    /\ paused_at_sweep' = PausedAmong(token_configs)
    /\ out_calls' = <<>>
    /\ fault' = ""
    /\ UNCHANGED <<db, token_configs, transactions, tx_idx, metrics, send_result,
                   delivered, unit>>

\* mutant of RaiseInSweep: the exception is not caught, the coroutine ends
RaiseInSweepUncaught ==
    /\ pc' = "stopped"
    /\ sleep_secs' = 0
    /\ cfg_idx' = 0
    /\ transactions' = <<>>
    /\ tx_idx' = 0
    /\ out_calls' = <<>>
    /\ fault' = "sweep"
    /\ UNCHANGED metrics

\* the exception of the sweep body is caught by the except of the while
\* loop: the for loops are left, asyncio.sleep(30) starts
RaiseInSweep ==
    /\ pc' = "error_sleep"
    /\ sleep_secs' = ErrorInterval
    /\ cfg_idx' = 0
    /\ transactions' = <<>>
    /\ tx_idx' = 0
    /\ out_calls' = <<>>
    /\ fault' = "sweep"
    /\ UNCHANGED metrics

\* mutant of ProcessTransaction: an event below the threshold is recorded as
\* handled
ProcessTransactionRecording ==
    /\ pc = "event"
    /\ tx_idx <= Len(transactions)
    /\ IF Get(transaction, "type", "") = "buy" /\ ThresholdRaises(transaction, config)
       THEN RaiseInSweep
       ELSE /\ IF Get(transaction, "type", "") = "buy" /\ ThresholdMet(transaction, config)
               THEN \E response \in DexScreenerResponses :
                       /\ metrics' = calculate_buy_metrics(transaction, config, response)
                       /\ out_calls' = <<DexScreenerCall(CleanAddress(config.token_address))>>
                       /\ fault' = IF response \in NoSnapshotResponses THEN "snapshot" ELSE ""
                       /\ IF Truthy(calculate_buy_metrics(transaction, config, response))
                          THEN pc' = "alert" /\ UNCHANGED tx_idx
                          ELSE tx_idx' = tx_idx + 1 /\ UNCHANGED pc
               ELSE /\ tx_idx' = tx_idx + 1
                    /\ out_calls' = <<>>
                    /\ fault' = ""
                    /\ UNCHANGED <<pc, metrics>>
            /\ UNCHANGED <<cfg_idx, transactions, sleep_secs>>
    /\ last_transactions' =
          IF /\ Get(transaction, "type", "") = "buy"
             /\ ~ThresholdRaises(transaction, config)
             /\ ~ThresholdMet(transaction, config)
             /\ Get(transaction, "tx_hash", "") # ""
          THEN add_transaction(last_transactions, config.chat_id, transaction.tx_hash).table
          ELSE last_transactions
    /\ UNCHANGED <<group_configs, token_configs, send_result, delivered, paused_at_sweep, unit>>

\* the next transaction: kind and threshold checks, then calculate_buy_metrics
ProcessTransaction ==
    /\ pc = "event"
    /\ tx_idx <= Len(transactions)
    /\ IF Get(transaction, "type", "") = "buy" /\ ThresholdRaises(transaction, config)
       THEN RaiseInSweep
       ELSE /\ IF Get(transaction, "type", "") = "buy" /\ ThresholdMet(transaction, config)
               THEN \E response \in DexScreenerResponses :
                       /\ metrics' = calculate_buy_metrics(transaction, config, response)
                       /\ out_calls' = <<DexScreenerCall(CleanAddress(config.token_address))>>
                       /\ fault' = IF response \in NoSnapshotResponses THEN "snapshot" ELSE ""
                       /\ IF Truthy(calculate_buy_metrics(transaction, config, response))
                          THEN pc' = "alert" /\ UNCHANGED tx_idx
                          ELSE tx_idx' = tx_idx + 1 /\ UNCHANGED pc
               ELSE /\ tx_idx' = tx_idx + 1
                    /\ out_calls' = <<>>
                    /\ fault' = ""
                    /\ UNCHANGED <<pc, metrics>>
            /\ UNCHANGED <<cfg_idx, transactions, sleep_secs>>
    /\ UNCHANGED <<db, token_configs, send_result, delivered, paused_at_sweep, unit>>

\* asyncio.sleep(30) is over: the while loop starts the next sweep, over the
\* same token_configs, from its first config
ErrorWaitDone ==
    /\ pc = "error_sleep"
    /\ pc' = "config"
    /\ cfg_idx' = 1
    /\ sleep_secs' = 0
    /\ paused_at_sweep' = PausedAmong(token_configs)
    /\ out_calls' = <<>>
    /\ fault' = ""
    /\ UNCHANGED <<db, token_configs, transactions, tx_idx, metrics, send_result,
                   delivered, unit>>

\* every transaction of the config was handled: next config
EndTransactions ==
    /\ pc = "event"
    /\ tx_idx > Len(transactions)
    /\ cfg_idx' = cfg_idx + 1
    /\ pc' = "config"
    /\ transactions' = <<>>
    /\ tx_idx' = 0
    /\ out_calls' = <<>>
    /\ fault' = ""
    /\ UNCHANGED <<db, token_configs, metrics, send_result, sleep_secs, delivered,
                   paused_at_sweep, unit>>

\* mutant of SendAlert: the failure of the request is not caught and reaches
\* the except of the sweep loop
SendAlertUncaught(ok) ==
    /\ send_result' = ok
    /\ delivered' = IF ok THEN delivered \cup {<<config.chat_id, Get(metrics, "tx_hash", "")>>}
                    ELSE delivered
    /\ fault' = IF ok THEN "" ELSE "sweep"
    /\ pc' = IF ok THEN "record" ELSE "error_sleep"
    /\ UNCHANGED <<tx_idx, metrics>>

\* send_buy_alert up to the return of send_message; ok: the request got a reply
SendAlert(ok) ==
    /\ send_result' = ok
    /\ delivered' = IF ok THEN delivered \cup {<<config.chat_id, Get(metrics, "tx_hash", "")>>}
                    ELSE delivered
    /\ fault' = IF ok THEN "" ELSE "delivery"
    /\ pc' = "record"
    /\ UNCHANGED <<tx_idx, metrics>>

send_buy_alert ==
    /\ pc = "alert"
    /\ LET tx_hash == Get(metrics, "tx_hash", "")
       IN  IF tx_hash # "" /\ is_transaction_processed(last_transactions, config.chat_id, tx_hash)
           THEN /\ tx_idx' = tx_idx + 1
                /\ pc' = "event"
                /\ metrics' = EmptyDict
                /\ fault' = ""
                /\ UNCHANGED <<send_result, delivered>>
           ELSE \E ok \in BOOLEAN : SendAlert(ok)
    /\ out_calls' = <<>>
    /\ UNCHANGED <<db, token_configs, cfg_idx, transactions, sleep_secs, paused_at_sweep,
                   unit>>

\* mutant of MarkProcessed: the event is recorded whatever its hash
MarkProcessedAnyHash ==
    /\ pc = "record"
    /\ last_transactions' =
          add_transaction(last_transactions, config.chat_id, Get(metrics, "tx_hash", "")).table
    /\ tx_idx' = tx_idx + 1
    /\ pc' = "event"
    /\ metrics' = EmptyDict
    /\ send_result' = FALSE
    /\ out_calls' = <<>>
    /\ fault' = ""
    /\ UNCHANGED <<group_configs, token_configs, cfg_idx, transactions, sleep_secs,
                   delivered, paused_at_sweep, unit>>

\* mutant of MarkProcessed: a destination whose delivery failed is
\* deactivated in the registry
MarkProcessedDeactivating ==
    /\ pc = "record"
    /\ LET tx_hash == Get(metrics, "tx_hash", "")
       IN  last_transactions' =
              IF tx_hash # ""
              THEN add_transaction(last_transactions, config.chat_id, tx_hash).table
              ELSE last_transactions
    /\ group_configs' =
          IF send_result THEN group_configs
          ELSE toggle_group_active(group_configs, config.chat_id, FALSE).configs
    /\ tx_idx' = tx_idx + 1
    /\ pc' = "event"
    /\ metrics' = EmptyDict
    /\ send_result' = FALSE
    /\ out_calls' = <<>>
    /\ fault' = ""
    /\ UNCHANGED <<token_configs, cfg_idx, transactions, sleep_secs,
                   delivered, paused_at_sweep, unit>>

\* send_buy_alert after send_message: mark the transaction as processed
MarkProcessed ==
    /\ pc = "record"
    /\ LET tx_hash == Get(metrics, "tx_hash", "")
       IN  last_transactions' =
              IF tx_hash # ""
              THEN add_transaction(last_transactions, config.chat_id, tx_hash).table
              ELSE last_transactions
    /\ tx_idx' = tx_idx + 1
    /\ pc' = "event"
    /\ metrics' = EmptyDict
    /\ send_result' = FALSE
    /\ out_calls' = <<>>
    /\ fault' = ""
    /\ UNCHANGED <<group_configs, token_configs, cfg_idx, transactions, sleep_secs,
                   delivered, paused_at_sweep, unit>>

\* the process is stopped and started again (main.py): the database is kept,
\* the monitoring thread starts over.  An alert delivered but not yet
\* recorded when the process stops is forgotten in `delivered`: the design
\* accepts one duplicate after such a stop.
Restart ==
    /\ pc # "read"
    /\ pc' = "read"
    /\ token_configs' = <<>>
    /\ cfg_idx' = 0
    /\ transactions' = <<>>
    /\ tx_idx' = 0
    /\ metrics' = EmptyDict
    /\ send_result' = FALSE
    /\ sleep_secs' = 0
    /\ out_calls' = <<>>
    /\ fault' = ""
    /\ paused_at_sweep' = {}
    /\ delivered' = IF pc = "record" /\ send_result
                    THEN delivered \ {<<config.chat_id, Get(metrics, "tx_hash", "")>>}
                    ELSE delivered
    /\ UNCHANGED <<db, unit>>

Next ==
    \/ \E chat_id \in Chats :
          \E outcome \in SetupOutcomesOf(chat_id) : fast_setup_command(chat_id, outcome)
    \/ \E chat_id \in PausingChats : pause_command(chat_id)
    \/ \E chat_id \in PausingChats : resume_command(chat_id)
    \/ ReadRegistry
    \/ IdleWaitDone
    \/ FetchTransactions
    \/ EndSweep
    \/ SweepWaitDone
    \/ ProcessTransaction
    \/ ErrorWaitDone
    \/ EndTransactions
    \/ send_buy_alert
    \/ MarkProcessed
    \/ Restart

Spec == Init /\ [][Next]_vars

\* the steps the monitoring thread is sure to take once it can: the sleeps
\* end, the database calls return, and a provider GET ends with an answer or
\* an error within the total timeout of the aiohttp session (the default of
\* ClientSession, 300 seconds).  The POST of send_message is not among them:
\* requests.post is called without a timeout and returns only when the
\* endpoint answers or the connection fails.
MonitorProgress ==
    \/ ReadRegistry
    \/ IdleWaitDone
    \/ FetchTransactions
    \/ EndSweep
    \/ SweepWaitDone
    \/ ProcessTransaction
    \/ ErrorWaitDone
    \/ EndTransactions
    \/ MarkProcessed
    \/ (send_buy_alert /\ pc' = "event")

\* the dispatch loop scheduled by its event loop
SpecLive == Init /\ [][Next]_vars /\ WF_vars(MonitorProgress)

(***************************************************************************)
(* The adapter and the metrics calculator on their own (specification      *)
(* SpecUnit): Init draws one call, the action applies the operation.       *)
(***************************************************************************)
AddrAbcExtra == <<"0", "x", "A", "B", "C", "-", "e", "x", "t", "r", "a">>

AddrAbc == <<"0", "x", "A", "B", "C">>

UnitAddresses == { AddrAbcExtra, AddrAbc, AddrDash, <<"a", "-", "b", "-", "c">> }

UnitStarkScanRecords ==
    StarkScanRecords \cup
    { [name |-> S(<<"t","r","a","n","s","f","e","r">>),
       data |-> <<S(<<"0","x","1">>), S(<<"0","x","2">>), S(<<"2","5">>)>>],
      [name |-> S(<<"A","p","p","r","o","v","a","l">>),
       data |-> <<S(<<"0","x","1">>), S(<<"0","x","2">>), S(<<"0","x","1","0">>)>>,
       transaction_hash |-> "h2"] }

UnitVoyagerRecords ==
    VoyagerRecords \cup
    { [type |-> "transfer", amount |-> N(5000), hash |-> "h2"],
      [type |-> "transfer", amount |-> S(<<"5">>), hash |-> "h2"],
      [type |-> "transfer", hash |-> "h2"] }

\* an answer of one record more than StarkScanLimit
Oversized(record) == [i \in 1..(StarkScanLimit + 1) |-> record]

UnitStarkScanResponses ==
    { [kind |-> "ok", status |-> HttpOk, body |-> [data |-> recs]] :
         recs \in SeqUpTo(UnitStarkScanRecords, MaxBatch) }
    \cup { [kind |-> "ok", status |-> HttpOk,
            body |-> [data |-> Oversized(
                         [name |-> S(<<"T","r","a","n","s","f","e","r">>),
                          data |-> <<S(<<"0","x","1">>), S(<<"0","x","2">>), S(<<"0","x","1","0">>)>>,
                          transaction_hash |-> "h2"])]] }
    \cup ErrorResponses

UnitVoyagerResponses ==
    { [kind |-> "ok", status |-> HttpOk, body |-> [items |-> recs]] :
         recs \in SeqUpTo(UnitVoyagerRecords, MaxBatch) }
    \cup { [kind |-> "ok", status |-> HttpOk,
            body |-> [items |-> Oversized(
                         [type |-> "transfer", amount |-> N(5000), hash |-> "h2"])]] }
    \cup ErrorResponses

UnitDexScreenerResponses ==
    DexScreenerResponses \cup
    { [kind |-> "ok", status |-> HttpOk, body |-> [pairs |-> <<>>]],
      [kind |-> "ok", status |-> HttpOk,
       body |-> [pairs |-> << [dexId |-> <<"j","e","d","i">>, priceUsd |-> Null] >>]] }

\* pairs of several venues, each with a price of its own
UnitPairs ==
    { [dexId |-> <<"j","e","d","i","s","w","a","p">>, priceUsd |-> S(<<"1">>)],
      [dexId |-> <<"E","k","u","b","o","-","V","2">>, priceUsd |-> S(<<"2">>)],
      [dexId |-> <<"e","k","u","b","o">>, priceUsd |-> N(3), marketCap |-> N(1500000)] }

UnitDexNames == { <<"e","k","u","b","o">>, <<"E","K","U","B","O">>, <<"a","v","n","u">> }

UnitPairResponses ==
    { [kind |-> "ok", status |-> HttpOk, body |-> [pairs |-> ps]] :
         ps \in SeqUpTo(UnitPairs, MaxBatch) } \cup ErrorResponses

\* the status the sender of a /setup has in the chat
UnitSenderStatuses == {"creator", "administrator", "member"}

\* what the getChatMember request comes to for a sender of that status
ChatMemberResponses(status) ==
    { [kind |-> "ok", status |-> HttpOk, body |-> [result |-> [status |-> status]]] }
       \cup ErrorResponses

UnitTransactions ==
    { [tx_hash |-> "h1", type |-> "buy", amount_usd |-> Num(75, 0), amount_token |-> Num(5000, 0)],
      [tx_hash |-> "h1", type |-> "buy", amount_usd |-> Num(59200, 18), amount_token |-> Num(16, 18)],
      [tx_hash |-> "h2", type |-> "buy", amount_usd |-> Num(7, 3), amount_token |-> Num(7, 0)],
      [tx_hash |-> "h2", type |-> "buy", amount_usd |-> Num(0, 3)] }

UnitSupplies == {1000000, 3, 0, -1}

UnitConfigs ==
    { [chat_id |-> 1, token_address |-> a, token_symbol |-> <<"E","T","H">>,
       dex_name |-> <<"E","k","u","b","o">>, total_supply |-> ts,
       min_buy_threshold |-> Num(50, 0), alert_frequency |-> "every_buy"] :
         a \in {AddrAbcExtra, AddrPlain}, ts \in UnitSupplies }

\* a failed answer, or an answer of at most one record
Short(response, key) == Failed(response) \/ Len(response.body[key]) <= 1

\* every pair of answers for one address, and every address with the short
\* answers
UnitCalls ==
    { [op |-> "get_recent_transactions", done |-> FALSE, token_address |-> AddrAbc,
       starkscan |-> x, voyager |-> y] :
         x \in UnitStarkScanResponses, y \in UnitVoyagerResponses }
    \cup
    { [op |-> "get_recent_transactions", done |-> FALSE, token_address |-> a,
       starkscan |-> x, voyager |-> y] :
         a \in UnitAddresses,
         x \in { r \in UnitStarkScanResponses : Short(r, "data") },
         y \in { r \in UnitVoyagerResponses : Short(r, "items") } }
    \cup
    { [op |-> "calculate_buy_metrics", done |-> FALSE, transaction |-> t,
       token_config |-> c, response |-> r] :
         t \in UnitTransactions, c \in UnitConfigs, r \in UnitDexScreenerResponses }
    \cup
    { [op |-> "get_token_data", done |-> FALSE, token_address |-> AddrPlain,
       dex_name |-> d, response |-> r] :
         d \in UnitDexNames, r \in UnitPairResponses }

InitUnit ==
    /\ group_configs = <<>>
    /\ last_transactions = EmptyBag
    /\ pc = "read"
    /\ token_configs = <<>>
    /\ cfg_idx = 0
    /\ transactions = <<>>
    /\ tx_idx = 0
    /\ metrics = EmptyDict
    /\ send_result = FALSE
    /\ sleep_secs = 0
    /\ out_calls = <<>>
    /\ fault = ""
    /\ delivered = {}
    /\ paused_at_sweep = {}
    /\ unit \in UnitCalls

allButUnit == <<group_configs, last_transactions, pc, token_configs, cfg_idx, transactions,
                tx_idx, metrics, send_result, sleep_secs, out_calls, fault, delivered,
                paused_at_sweep>>

ApplyRecentTransactions ==
    /\ unit.op = "get_recent_transactions"
    /\ ~unit.done
    /\ unit' = [op            |-> unit.op,
                done          |-> TRUE,
                token_address |-> unit.token_address,
                starkscan     |-> unit.starkscan,
                voyager       |-> unit.voyager,
                calls         |-> RecentTransactionsCalls(
                                     unit.token_address,
                                     _fetch_starkscan_transactions(unit.starkscan)),
                result        |-> get_recent_transactions(unit.starkscan, unit.voyager)]
    /\ UNCHANGED allButUnit

ApplyBuyMetrics ==
    /\ unit.op = "calculate_buy_metrics"
    /\ ~unit.done
    /\ unit' = [op           |-> unit.op,
                done         |-> TRUE,
                transaction  |-> unit.transaction,
                token_config |-> unit.token_config,
                response     |-> unit.response,
                calls        |-> <<DexScreenerCall(CleanAddress(unit.token_config.token_address))>>,
                result       |-> calculate_buy_metrics(unit.transaction, unit.token_config,
                                                       unit.response)]
    /\ UNCHANGED allButUnit

ApplyTokenData ==
    /\ unit.op = "get_token_data"
    /\ ~unit.done
    /\ unit' = [op            |-> unit.op,
                done          |-> TRUE,
                token_address |-> unit.token_address,
                dex_name      |-> unit.dex_name,
                response      |-> unit.response,
                calls         |-> <<DexScreenerCall(CleanAddress(unit.token_address))>>,
                result        |-> get_token_data(unit.dex_name, unit.response)]
    /\ UNCHANGED allButUnit

NextUnit == ApplyRecentTransactions \/ ApplyBuyMetrics \/ ApplyTokenData

SpecUnit == InitUnit /\ [][NextUnit]_vars

(***************************************************************************)
(* The /setup handler on its own (specification SpecSetup): Init draws one *)
(* message, its sender and the answer to the member lookup.                *)
(***************************************************************************)
SetupCalls ==
    UNION { { [op |-> "fast_setup_command", done |-> FALSE, chat_id |-> 1,
               chat_type |-> t, sender_status |-> st, response |-> r, args |-> a] :
                 t \in ChatTypes, a \in SetupTexts, r \in ChatMemberResponses(st) } :
            st \in UnitSenderStatuses }

InitSetup ==
    /\ group_configs = <<>>
    /\ last_transactions = EmptyBag
    /\ pc = "read"
    /\ token_configs = <<>>
    /\ cfg_idx = 0
    /\ transactions = <<>>
    /\ tx_idx = 0
    /\ metrics = EmptyDict
    /\ send_result = FALSE
    /\ sleep_secs = 0
    /\ out_calls = <<>>
    /\ fault = ""
    /\ delivered = {}
    /\ paused_at_sweep = {}
    /\ unit \in SetupCalls

\* the message is handled; the member lookup is made only in a group or
\* supergroup
ApplySetup ==
    /\ unit.op = "fast_setup_command"
    /\ ~unit.done
    /\ LET chat_member == IF unit.chat_type \in {"group", "supergroup"}
                          THEN get_chat_member(unit.response) ELSE None
       IN  /\ group_configs' = SetupResult(group_configs, unit.chat_id, unit.chat_type,
                                           chat_member, unit.args)
           /\ unit' = [op            |-> unit.op,
                       done          |-> TRUE,
                       chat_id       |-> unit.chat_id,
                       chat_type     |-> unit.chat_type,
                       sender_status |-> unit.sender_status,
                       response      |-> unit.response,
                       args          |-> unit.args,
                       result        |-> chat_member]
    /\ UNCHANGED <<last_transactions, pc, locals, out_calls, fault, delivered, paused_at_sweep>>

NextSetup == ApplySetup

SpecSetup == InitSetup /\ [][NextSetup]_vars

(***************************************************************************)
(* The polling thread (specification SpecPoll): start_polling asks for     *)
(* updates and hands each to handle_update.  `unit` holds the thread:      *)
(* phase "request" (before get_updates), "handle" (in the for loop over    *)
(* the batch), "sleep" (in the sleep that ends a round).                   *)
(***************************************************************************)
\* updates: a /pause of chat 1, and a message without a sender, on which
\* handle_update raises a KeyError
PollUpdates ==
    { [update_id |-> i, kind |-> k] : i \in 1..MaxUpdateId, k \in {"pause", "malformed"} }

\* what a getUpdates request comes to: a batch in any order, a failed
\* request, or a reply that is not JSON
PollReplies ==
    { [kind |-> "ok", result |-> b] : b \in SeqUpTo(PollUpdates, MaxPollBatch) }
       \cup { [kind |-> "error"], [kind |-> "invalid"] }

PollInterval == 1

PollErrorInterval == 5

\* mutant of handle_update: the exception of a handler is not caught
handle_update_uncaught(configs, update) ==
    IF update.kind = "malformed" THEN [configs |-> configs, raised |-> TRUE]
    ELSE [configs |-> toggle_group_active(configs, 1, FALSE).configs, raised |-> FALSE]

\* handle_update: the registry after the update, and whether an exception
\* left the handler (none does: the body is in a try/except)
handle_update(configs, update) ==
    IF update.kind = "malformed" THEN [configs |-> configs, raised |-> FALSE]
    ELSE [configs |-> toggle_group_active(configs, 1, FALSE).configs, raised |-> FALSE]

InitPoll ==
    /\ group_configs = save_group_config(<<>>, 1,
                            SetupConfig(<<AddrDash, SymEth, DexEkubo,
                                          <<"1","0","0","0","0","0","0">>, <<"5","0">>>>))
    /\ last_transactions = EmptyBag
    /\ pc = "read"
    /\ token_configs = <<>>
    /\ cfg_idx = 0
    /\ transactions = <<>>
    /\ tx_idx = 0
    /\ metrics = EmptyDict
    /\ send_result = FALSE
    /\ sleep_secs = 0
    /\ out_calls = <<>>
    /\ fault = ""
    /\ delivered = {}
    /\ paused_at_sweep = {}
    /\ unit = [op |-> "start_polling", phase |-> "request", last_update_id |-> 0,
               offset |-> None, batch |-> <<>>, idx |-> 0, largest |-> 0,
               handled |-> <<>>, wait |-> 0]

pollFrame == <<last_transactions, pc, locals, out_calls, fault, delivered, paused_at_sweep>>

\* get_updates and the test of its result.  A reply that is not JSON makes
\* response.json() raise: a RequestException in some versions of requests
\* (get_updates returns ok: False), a plain ValueError in others (the
\* except of the loop, which sleeps 5 seconds)
PollRequest ==
    /\ unit.phase = "request"
    /\ \E reply \in PollReplies, wait \in {PollInterval, PollErrorInterval} :
          /\ reply.kind # "invalid" => wait = PollInterval
          /\ unit' = [unit EXCEPT
                !.offset  = IF unit.last_update_id > 0 THEN unit.last_update_id + 1 ELSE None,
                !.batch   = IF reply.kind = "ok" THEN reply.result ELSE <<>>,
                !.idx     = IF reply.kind = "ok" /\ reply.result # <<>> THEN 1 ELSE 0,
                !.handled = <<>>,
                !.largest = IF reply.kind = "ok"
                            THEN Max2(unit.largest, MaxOf(reply.result)) ELSE unit.largest,
                !.phase   = IF reply.kind = "ok" /\ reply.result # <<>>
                            THEN "handle" ELSE "sleep",
                !.wait    = IF reply.kind = "ok" /\ reply.result # <<>> THEN 0 ELSE wait]
    /\ UNCHANGED group_configs
    /\ UNCHANGED pollFrame

\* one round of the for loop: the offset moves on, the update is handled;
\* an exception that leaves handle_update ends the batch in the except of
\* the loop
PollHandle ==
    /\ unit.phase = "handle"
    /\ unit.idx <= Len(unit.batch)
    /\ LET update  == unit.batch[unit.idx]
           handled == handle_update(group_configs, update)
       IN  /\ group_configs' = handled.configs
           /\ unit' = [unit EXCEPT
                 !.last_update_id = Max2(unit.last_update_id, update.update_id),
                 !.handled = IF handled.raised THEN unit.handled
                             ELSE Append(unit.handled, update.update_id),
                 !.idx     = IF handled.raised THEN 0 ELSE unit.idx + 1,
                 !.phase   = IF handled.raised THEN "sleep" ELSE "handle",
                 !.wait    = IF handled.raised THEN PollErrorInterval ELSE 0]
    /\ UNCHANGED pollFrame

\* the batch is through: sleep 1 second
PollBatchDone ==
    /\ unit.phase = "handle"
    /\ unit.idx > Len(unit.batch)
    /\ unit' = [unit EXCEPT !.phase = "sleep", !.wait = PollInterval]
    /\ UNCHANGED group_configs
    /\ UNCHANGED pollFrame

PollWaitDone ==
    /\ unit.phase = "sleep"
    /\ unit' = [unit EXCEPT !.phase = "request", !.wait = 0]
    /\ UNCHANGED group_configs
    /\ UNCHANGED pollFrame

NextPoll == PollRequest \/ PollHandle \/ PollBatchDone \/ PollWaitDone

SpecPoll == InitPoll /\ [][NextPoll]_vars

(***************************************************************************)
(* The dedup store on its own (specification SpecDb): add_transaction and  *)
(* is_transaction_processed are called in any order with any key.          *)
(***************************************************************************)
DbHashes == {"", "h1", "h2"}

CallAddTransaction(chat_id, tx_hash) ==
    /\ last_transactions' = add_transaction(last_transactions, chat_id, tx_hash).table
    /\ unit' = [op      |-> "add_transaction",
                chat_id |-> chat_id,
                tx_hash |-> tx_hash,
                result  |-> add_transaction(last_transactions, chat_id, tx_hash).result,
                raised  |-> add_transaction(last_transactions, chat_id, tx_hash).raised]
    /\ UNCHANGED <<group_configs, pc, locals, out_calls, fault, delivered, paused_at_sweep>>

CallIsTransactionProcessed(chat_id, tx_hash) ==
    /\ unit' = [op      |-> "is_transaction_processed",
                chat_id |-> chat_id,
                tx_hash |-> tx_hash,
                result  |-> is_transaction_processed(last_transactions, chat_id, tx_hash)]
    /\ UNCHANGED <<db, pc, locals, out_calls, fault, delivered, paused_at_sweep>>

NextDb ==
    \/ \E chat_id \in Chats, tx_hash \in DbHashes : CallAddTransaction(chat_id, tx_hash)
    \/ \E chat_id \in Chats, tx_hash \in DbHashes : CallIsTransactionProcessed(chat_id, tx_hash)

SpecDb == Init /\ [][NextDb]_vars

(***************************************************************************)
(* Properties of the dispatch loop (specification Spec).                   *)
(***************************************************************************)
\* the step is the delivery of the alert (chat_id, tx_hash): send_message got a reply
Delivers(chat_id, tx_hash) ==
    /\ pc = "alert"
    /\ pc' = "record"
    /\ send_result'
    /\ config.chat_id = chat_id
    /\ Get(metrics, "tx_hash", "") = tx_hash

\* every event hash the adapter can return: the hashes of the records, and
\* the empty hash of a record without one
EventHashes == Hashes \cup {""}

\* C1: no duplicate alerts -- for every destination and every event hash the
\* adapter can emit, the alert for (destination, hash) is delivered at most
\* once: no step delivers an alert that was delivered before.
C1_NoDuplicateAlerts ==
    [][\A chat_id \in Chats, tx_hash \in EventHashes :
          Delivers(chat_id, tx_hash) => <<chat_id, tx_hash>> \notin delivered]_vars

\* C2: record_alerted ordering -- a row enters the dedup store only in the
\* step after a delivery that completed without error; after a failed
\* delivery the store is left unchanged.
C2_RecordOnlyAfterDelivery ==
    [][last_transactions' # last_transactions => (pc = "record" /\ send_result)]_vars

\* C3: no missed alerts -- an event whose alert was never delivered (the
\* delivery failed, or the process stopped before it) is not treated as
\* handled: when it reaches the dedup check again it is sent, not skipped.
C3_NoMissedAlerts ==
    [][(/\ pc = "alert"
        /\ <<config.chat_id, Get(metrics, "tx_hash", "")>> \notin delivered
        /\ pc' \notin {"alert", "read"}) => pc' = "record"]_vars

\* the transaction in hand is a buy whose amount equals the threshold of its config
AtThreshold ==
    /\ tx_idx \in 1..Len(transactions)
    /\ Get(transaction, "type", "") = "buy"
    /\ ~ThresholdRaises(transaction, config)
    /\ Get(transaction, "amount_usd", Zero).e = 3
    /\ Get(config, "min_buy_threshold", Zero).e = 0
    /\ Get(transaction, "amount_usd", Zero).m = Get(config, "min_buy_threshold", Zero).m * 1000

\* the transaction in hand is below the threshold of its config
BelowThreshold ==
    /\ tx_idx \in 1..Len(transactions)
    /\ ~ThresholdRaises(transaction, config)
    /\ ~NumGeq(Get(transaction, "amount_usd", Zero), Get(config, "min_buy_threshold", Zero))

\* C4: threshold correctness -- no alert is computed or delivered for an
\* event below the threshold of the config the sweep holds, and a buy whose
\* amount equals the threshold is not filtered out: the step that handles
\* it asks for the market snapshot (and the alert follows, see the witness).
C4_ThresholdCorrectness ==
    /\ [](pc \in {"alert", "record"} => ~BelowThreshold)
    /\ [][(/\ pc = "event"
            /\ AtThreshold
            /\ pc' \in {"event", "alert"}
            /\ <<pc, tx_idx>>' # <<pc, tx_idx>>)
             => out_calls' = <<[api |-> "dexscreener", address |-> <<"0", "x">> \o Rep("b", 58)]>>]_vars

\* C4 witness: the alert of a buy whose amount equals the threshold was delivered
C4_Witness == pc = "record" /\ send_result /\ AtThreshold

\* C5: pause takes effect -- a destination that was paused in the registry
\* when the sweep started, and is still paused, gets no alert in that sweep.
C5_PauseTakesEffect ==
    [][\A chat_id \in Chats, tx_hash \in EventHashes :
          Delivers(chat_id, tx_hash)
             => ~(chat_id \in paused_at_sweep /\ chat_id \in PausedChats)]_vars

\* the registry holds no active destination
NoActiveDestination == \A c \in DOMAIN group_configs : ~group_configs[c].is_active

\* C10: idle behaviour -- when the registry read of a loop iteration finds
\* no active destination, the iteration makes no provider call and no
\* delivery and sleeps 60 seconds; the step after the sleep is the next
\* registry read.
C10_IdleBehaviour ==
    [][/\ (pc = "read" /\ NoActiveDestination /\ pc' # pc)
          => (/\ pc' = "idle_sleep"
              /\ sleep_secs' = 60
              /\ out_calls' = <<>>
              /\ delivered' = delivered)
       /\ (pc = "idle_sleep" /\ pc' # pc)
          => (/\ pc' = "read"
              /\ out_calls' = <<>>
              /\ delivered' = delivered)]_vars

\* C10 witness: the loop sleeps after a read of a registry whose only
\* destination is paused
C10_Witness ==
    /\ pc = "idle_sleep"
    /\ sleep_secs = 60
    /\ DOMAIN group_configs # {}
    /\ NoActiveDestination

(***************************************************************************)
(* Properties of the adapter and the metrics calculator (SpecUnit).        *)
(***************************************************************************)
\* the call of `unit` was applied
Applied(op) == unit.op = op /\ unit.done

\* C6: fallback order -- when StarkScan yields no parsed event and Voyager
\* yields N parsed events, get_recent_transactions returns exactly the N
\* events of Voyager, in Voyager's order.
C6_FallbackOrder ==
    (Applied("get_recent_transactions") /\ _fetch_starkscan_transactions(unit.starkscan) = <<>>)
       => unit.result = _fetch_voyager_transactions(unit.voyager)

\* C6 witness: StarkScan answered, none of its records parsed, and the two
\* different events of Voyager were returned
C6_Witness ==
    /\ Applied("get_recent_transactions")
    /\ unit.starkscan.kind = "ok"
    /\ unit.starkscan.status = 200
    /\ Len(unit.starkscan.body.data) > 0
    /\ _fetch_starkscan_transactions(unit.starkscan) = <<>>
    /\ Len(unit.result) = 2
    /\ unit.result[1].tx_hash = "h2"
    /\ unit.result[2].tx_hash = "h1"

\* the address the applied call was given
UnitAddress ==
    IF unit.op = "calculate_buy_metrics" THEN unit.token_config.token_address
    ELSE unit.token_address

\* clean is raw cut before its first '-', or raw itself when it has none
CutAtDash(raw, clean) ==
    /\ \A i \in 1..Len(clean) : clean[i] # "-"
    /\ Len(clean) <= Len(raw)
    /\ \A i \in 1..Len(clean) : clean[i] = raw[i]
    /\ Len(clean) < Len(raw) => raw[Len(clean) + 1] = "-"

\* C8: address normalization -- every provider call (market snapshot,
\* StarkScan, Voyager) is made with the address cut before its first '-',
\* which is the address itself when it holds no '-'; "0xABC-extra" gives
\* "0xABC".
C8_AddressNormalization ==
    unit.done =>
       /\ Len(unit.calls) > 0
       /\ \A i \in 1..Len(unit.calls) : CutAtDash(UnitAddress, unit.calls[i].address)
       /\ UnitAddress = <<"0","x","A","B","C","-","e","x","t","r","a">>
             => \A i \in 1..Len(unit.calls) : unit.calls[i].address = <<"0","x","A","B","C">>
       /\ UnitAddress = <<"0","x","A","B","C">>
             => \A i \in 1..Len(unit.calls) : unit.calls[i].address = <<"0","x","A","B","C">>

\* C8 witness: both event sources were asked for "0xABC-extra"
C8_Witness ==
    /\ Applied("get_recent_transactions")
    /\ unit.token_address = <<"0","x","A","B","C","-","e","x","t","r","a">>
    /\ Len(unit.calls) = 2
    /\ unit.calls[1].api = "starkscan"
    /\ unit.calls[2].api = "voyager"

RECURSIVE Gcd(_, _)
Gcd(a, b) == IF b = 0 THEN a ELSE Gcd(b, a % b)

\* the fraction num / den in lowest terms, for num >= 0 and den > 0
Lowest(num, den) == <<num \div Gcd(num, den), den \div Gcd(num, den)>>

\* C9: supply percentage -- with an obtainable snapshot the payload's
\* supply_percentage is (amount_token / total_supply) * 100 when
\* total_supply > 0 and 0 otherwise; 5000 of 1,000,000 is 0.5.
C9_SupplyPercentage ==
    (Applied("calculate_buy_metrics") /\ unit.result # <<>>) =>
       LET amount == Get(unit.transaction, "amount_token", [m |-> 0, e |-> 0])
           supply == unit.token_config.total_supply
           pct    == unit.result.supply_percentage
       IN  /\ supply > 0 =>
                /\ Lowest(pct.num, pct.den) = Lowest(amount.m * 100, supply)
                /\ pct.e = amount.e
           /\ supply <= 0 => pct.num = 0
           /\ (amount = [m |-> 5000, e |-> 0] /\ supply = 1000000)
                => (Lowest(pct.num, pct.den) = <<1, 2>> /\ pct.e = 0)

\* C9 witness: the payload for 5000 tokens of a supply of 1,000,000
C9_Witness ==
    /\ Applied("calculate_buy_metrics")
    /\ unit.result # <<>>
    /\ unit.transaction.tx_hash = "h1"
    /\ unit.transaction.amount_usd = [m |-> 75, e |-> 0]
    /\ unit.token_config.total_supply = 1000000
    /\ unit.result.supply_percentage.num * 2 = unit.result.supply_percentage.den

(***************************************************************************)
(* Properties of the dedup store (SpecDb).                                 *)
(***************************************************************************)
\* C7: dedup idempotence -- add_transaction(d, h), called any number of
\* times, never raises and leaves exactly one row (d, h);
\* is_transaction_processed(d, h) is true after the first call and after
\* every later call.
C7_DedupIdempotence ==
    /\ [](\A row \in BagToSet(last_transactions) : CopiesIn(row, last_transactions) = 1)
    /\ [](Get(unit, "op", "") = "add_transaction" =>
             /\ ~unit.raised
             /\ CopiesIn(<<unit.chat_id, unit.tx_hash>>, last_transactions) = 1
             /\ is_transaction_processed(last_transactions, unit.chat_id, unit.tx_hash))
    /\ [][\A chat_id \in Chats, tx_hash \in DbHashes :
             is_transaction_processed(last_transactions, chat_id, tx_hash)
                => is_transaction_processed(last_transactions', chat_id, tx_hash)]_vars

\* C7 witness: a repeated add_transaction(d, h) was ignored and (d, h) is
\* still there once
C7_Witness ==
    /\ Get(unit, "op", "") = "add_transaction"
    /\ ~unit.result
    /\ CopiesIn(<<unit.chat_id, unit.tx_hash>>, last_transactions) = 1

(***************************************************************************)
(* Properties of the sweep under failures (specification Spec).            *)
(***************************************************************************)
\* C11: provider failure is not fatal -- when both event sources fail (the
\* request raises or is answered with a status other than 200) the fetch
\* returns the empty list without raising, and the step that follows in
\* the monitoring thread moves the same sweep on to the next destination.
C11_ProviderFailureNotFatal ==
    [][/\ (pc = "config" /\ fault' = "sources")
          => (/\ pc' = "event"
              /\ transactions' = <<>>
              /\ Len(out_calls') = 2
              /\ <<token_configs, cfg_idx>>' = <<token_configs, cfg_idx>>)
       /\ (pc = "event" /\ fault = "sources" /\ pc' \notin {"event", "read"})
          => (/\ pc' = "config"
              /\ cfg_idx' = cfg_idx + 1
              /\ token_configs' = token_configs)]_vars

\* C11 witness: both sources failed for the first of two destinations
C11_Witness ==
    /\ pc = "event"
    /\ fault = "sources"
    /\ cfg_idx = 1
    /\ Len(token_configs) = 2
    /\ transactions = <<>>

\* C12: sweep freshness -- every sweep starts with a registry read: the list
\* of configs a sweep visits is the list of the destinations active in the
\* registry at the moment the sweep starts, with their current rows.
C12_SweepFreshness ==
    [][(pc \in {"read", "sweep_sleep", "error_sleep"} /\ pc' = "config")
          => token_configs' = get_all_active_groups(group_configs)]_vars

\* C13: scheduler state machine -- the loop sweeps only while the registry
\* has an active destination: when a sweep is over and the registry holds no
\* active destination, the loop does not start another sweep but goes back
\* to the registry read and its idle wait.
C13_SchedulerStateMachine ==
    [][(/\ pc \in {"sweep_sleep", "error_sleep"}
        /\ get_all_active_groups(group_configs) = <<>>
        /\ pc' # pc) => pc' \in {"read", "idle_sleep"}]_vars

\* C14: destination isolation -- when processing a destination raises, the
\* sweep goes on with the destination after it in registry order: it is
\* not ended before the destinations that follow were processed.
C14_DestinationIsolation ==
    [][(pc = "event" /\ fault' = "sweep" /\ cfg_idx < Len(token_configs))
          => (pc' = "config" /\ cfg_idx' = cfg_idx + 1)]_vars

\* C15: dedup before compute -- for an event whose (destination, hash) is
\* already in the dedup store, the step that handles it makes no
\* market-snapshot call and computes no payload.
C15_DedupBeforeCompute ==
    [][(/\ pc = "event"
        /\ tx_idx \in 1..Len(transactions)
        /\ is_transaction_processed(last_transactions, config.chat_id,
                                    Get(transaction, "tx_hash", ""))
        /\ <<pc, tx_idx>>' # <<pc, tx_idx>>)
          => (out_calls' = <<>> /\ pc' # "alert")]_vars

\* C16: no degraded alert -- when DexScreener gives no snapshot (the request
\* fails, the status is not 200, or no pair is listed) the payload is empty,
\* the callback is not invoked, neither the dedup store nor the set of
\* delivered alerts changes, and the sweep is at the next event of the same
\* destination.
C16_NoDegradedAlert ==
    [][(pc = "event" /\ fault' = "snapshot" /\ <<pc, tx_idx>>' # <<pc, tx_idx>>)
          => (/\ metrics' = EmptyDict
              /\ pc' = "event"
              /\ tx_idx' = tx_idx + 1
              /\ <<token_configs, cfg_idx, transactions>>' = <<token_configs, cfg_idx, transactions>>
              /\ last_transactions' = last_transactions
              /\ delivered' = delivered)]_vars

\* C16 witness: no snapshot for the first of two events; the second is next
C16_Witness ==
    /\ pc = "event"
    /\ fault = "snapshot"
    /\ tx_idx = 2
    /\ Len(transactions) = 2
    /\ Len(out_calls) = 1
    /\ out_calls[1].api = "dexscreener"

\* C17: a delivery failure never raises out of the sweep -- the callback
\* never leaves the sweep for the error path, and after a failed delivery
\* the sweep is at the next event of the same destination, with the same
\* list of destinations still to visit.
C17_DeliveryFailureContained ==
    [][/\ (pc \in {"alert", "record"} /\ pc' # pc) => pc' \in {"record", "event", "read"}
       /\ (pc = "record" /\ ~send_result /\ pc' \notin {"record", "read"})
          => (/\ pc' = "event"
              /\ tx_idx' = tx_idx + 1
              /\ sleep_secs' = 0
              /\ <<token_configs, cfg_idx, transactions>>' = <<token_configs, cfg_idx, transactions>>)]_vars

\* C17 witness: the delivery failed for the first of two events of the first
\* of two destinations
C17_Witness ==
    /\ pc = "record"
    /\ ~send_result
    /\ fault = "delivery"
    /\ tx_idx = 1
    /\ Len(transactions) = 2
    /\ cfg_idx = 1
    /\ Len(token_configs) = 2

\* a step of the monitoring thread
MonitorStep ==
    \/ ReadRegistry
    \/ IdleWaitDone
    \/ FetchTransactions
    \/ EndSweep
    \/ SweepWaitDone
    \/ ProcessTransaction
    \/ ErrorWaitDone
    \/ EndTransactions
    \/ send_buy_alert
    \/ MarkProcessed

\* C18: the dispatch loop never terminates on its own -- the monitoring
\* thread always has a next step; an exception in the sweep body leads to a
\* wait and from there to the first config of the next sweep; a failed
\* registry read leads to a wait and from there to the next registry read.
C18_LoopNeverTerminates ==
    /\ [](ENABLED MonitorStep)
    /\ [][/\ (pc = "event" /\ fault' = "sweep")
             => (pc' = "error_sleep" /\ sleep_secs' > 0)
          /\ (pc = "error_sleep" /\ pc' \notin {"error_sleep", "read"})
             => (pc' = "config" /\ cfg_idx' = 1 /\ token_configs' = token_configs)
          /\ (pc = "read" /\ fault' = "registry")
             => (pc' = "idle_sleep" /\ sleep_secs' > 0)
          /\ (pc = "idle_sleep" /\ pc' # pc) => pc' = "read"]_vars

\* C18 witness: the registry read failed although a destination is active,
\* and the loop waits before it reads again
C18_Witness ==
    /\ pc = "idle_sleep"
    /\ fault = "registry"
    /\ get_all_active_groups(group_configs) # <<>>

\* the step starts a sweep: it leads to the first config of token_configs
StartsSweep == pc' = "config" /\ cfg_idx' = 1 /\ <<pc, cfg_idx>> # <<"config", 1>>

\* C19: inter-sweep delay -- a sweep that visited every config ends in the
\* 15 second sleep, a sweep ended by an exception ends in the 30 second
\* sleep, and a sweep starts only out of one of these sleeps (or, for the
\* first sweep, out of the registry read).
C19_InterSweepDelay ==
    /\ [](pc = "sweep_sleep" => sleep_secs = 15)
    /\ [](pc = "error_sleep" => sleep_secs = 30)
    /\ [][/\ (pc = "config" /\ cfg_idx > Len(token_configs) /\ pc' \notin {"config", "read"})
             => pc' = "sweep_sleep"
          /\ (pc = "event" /\ fault' = "sweep") => pc' = "error_sleep"
          /\ (pc' \in {"sweep_sleep", "error_sleep"} /\ pc' # pc)
             => (IF fault' = "sweep" THEN pc' = "error_sleep" ELSE pc' = "sweep_sleep")
          /\ StartsSweep => pc \in {"read", "sweep_sleep", "error_sleep"}]_vars

\* C19 witness: the sweep was ended by an exception and the loop is in the
\* 30 second sleep
C19_Witness ==
    /\ pc = "error_sleep"
    /\ sleep_secs = 30
    /\ fault = "sweep"
    /\ Len(token_configs) = 2

(***************************************************************************)
(* Further properties of the adapter (specification SpecUnit).             *)
(***************************************************************************)
\* the applied get_recent_transactions asked Voyager
VoyagerQueried == \E i \in 1..Len(unit.calls) : unit.calls[i].api = "voyager"

\* C20: short-circuit -- StarkScan is asked first; when it gives at least
\* one parsed event Voyager is not asked and the events returned are those
\* of StarkScan; Voyager is asked exactly when the StarkScan request raised,
\* was answered with a status other than 200, or gave no parsed event.
C20_ShortCircuit ==
    Applied("get_recent_transactions") =>
       LET first == _fetch_starkscan_transactions(unit.starkscan)
       IN  /\ unit.calls[1].api = "starkscan"
           /\ first # <<>> => (~VoyagerQueried /\ unit.result = first)
           /\ VoyagerQueried <=> (Failed(unit.starkscan) \/ first = <<>>)
           /\ Failed(unit.starkscan) => VoyagerQueried

\* C20 witness: StarkScan gave an event, and Voyager, which had events of
\* its own, was not asked
C20_Witness ==
    /\ Applied("get_recent_transactions")
    /\ _fetch_starkscan_transactions(unit.starkscan) # <<>>
    /\ _fetch_voyager_transactions(unit.voyager) # <<>>
    /\ Len(unit.calls) = 1
    /\ unit.result = _fetch_starkscan_transactions(unit.starkscan)


(***************************************************************************)
(* The events the adapter returns (specification SpecUnit).                *)
(***************************************************************************)
\* the records a source answered with, none when its request failed
SourceRecords(kind) ==
    IF kind = "starkscan"
    THEN (IF Failed(unit.starkscan) THEN <<>> ELSE Get(unit.starkscan.body, "data", <<>>))
    ELSE (IF Failed(unit.voyager) THEN <<>> ELSE Get(unit.voyager.body, "items", <<>>))

\* the event of one record of a source, or None
EventOf(record, kind) ==
    IF kind = "starkscan" THEN _parse_starkscan_event(record)
    ELSE _parse_voyager_transaction(record)

\* the positions of the records of a source that parse
Parsable(kind) ==
    { i \in 1..Len(SourceRecords(kind)) : EventOf(SourceRecords(kind)[i], kind) # None }

\* the i-th smallest position of a set of positions
Kth(positions, i) ==
    CHOOSE k \in positions : Cardinality({ j \in positions : j <= k }) = i

\* events are the events of the parsable records of a source, one per
\* record, in the order of the records, none left out below the limit
InOrderParsed(events, kind) ==
    /\ Len(events) <= Cardinality(Parsable(kind))
    /\ Cardinality(Parsable(kind)) <= StarkScanLimit
          => Len(events) = Cardinality(Parsable(kind))
    /\ \A i \in 1..Len(events) :
          events[i] = EventOf(SourceRecords(kind)[Kth(Parsable(kind), i)], kind)

\* C21: no fabricated events -- the list get_recent_transactions returns is
\* the in-order subsequence of the records of the chosen source that
\* parsed (StarkScan when it has any, Voyager otherwise), every event the
\* event of one record, and it is empty when neither source has a record
\* that parses.
C21_NoFabricatedEvents ==
    Applied("get_recent_transactions") =>
       /\ Parsable("starkscan") # {} => InOrderParsed(unit.result, "starkscan")
       /\ Parsable("starkscan") = {} => InOrderParsed(unit.result, "voyager")
       /\ (Parsable("starkscan") = {} /\ Parsable("voyager") = {}) => unit.result = <<>>

\* C21 witness: Voyager was the source, its first record did not parse and
\* its second did, and the one event returned is the event of the second
C21_Witness ==
    /\ Applied("get_recent_transactions")
    /\ Parsable("starkscan") = {}
    /\ Len(SourceRecords("starkscan")) > 0
    /\ Parsable("voyager") = {2}
    /\ Len(unit.result) = 1
    /\ unit.result[1] = _parse_voyager_transaction(unit.voyager.body.items[2])


\* C22: result cap -- whatever the size of the answer of either source,
\* get_recent_transactions returns at most 10 events.
C22_ResultCap ==
    Applied("get_recent_transactions") => Len(unit.result) <= StarkScanLimit

\* C23: buy classification -- a record becomes a 'buy' event only when it
\* is a transfer record and its amount is present and decodes to a number;
\* a Voyager transfer record without an amount is never returned as an
\* event.
C23_BuyClassification ==
    Applied("get_recent_transactions") =>
       /\ \A i \in Parsable("voyager") :
             /\ Get(SourceRecords("voyager")[i], "type", "") = "transfer"
             /\ "amount" \in DOMAIN SourceRecords("voyager")[i]
       /\ \A i \in Parsable("starkscan") :
             /\ Contains(Lower(Get(SourceRecords("starkscan")[i], "name", S(<<>>)).v), Transfer)
             /\ Len(Get(SourceRecords("starkscan")[i], "data", <<>>)) >= 3
       /\ Parsable("starkscan") = {}
             => \A i \in 1..Len(unit.result) :
                   \E k \in 1..Len(SourceRecords("voyager")) :
                      /\ "amount" \in DOMAIN SourceRecords("voyager")[k]
                      /\ unit.result[i] = _parse_voyager_transaction(SourceRecords("voyager")[k])


(***************************************************************************)
(* The market snapshot (specification SpecUnit).                           *)
(***************************************************************************)
\* the dexId of a pair contains the venue name, whatever the case of either
VenueMatches(pair, dex_name) ==
    \E i \in 0..(Len(pair.dexId) - Len(dex_name)) :
       \A j \in 1..Len(dex_name) :
          LowerChar(pair.dexId[i + j]) = LowerChar(dex_name[j])

\* C24: pair selection -- for a 200 answer with pairs get_token_data
\* returns the snapshot of the first pair whose dexId contains the venue
\* name, ignoring case, and of the first pair when none does; it returns
\* None when the status is not 200, when there is no pair, and on an error.
C24_PairSelection ==
    Applied("get_token_data") =>
       LET pairs == IF Failed(unit.response) THEN <<>> ELSE unit.response.body.pairs
       IN  /\ pairs = <<>> => unit.result = None
           /\ \A i \in 1..Len(pairs) :
                 (/\ VenueMatches(pairs[i], unit.dex_name)
                  /\ \A j \in 1..(i - 1) : ~VenueMatches(pairs[j], unit.dex_name))
                    => /\ unit.result = _format_token_data(pairs[i])
                       /\ unit.result.dex_id = pairs[i].dexId
           /\ (pairs # <<>> /\ \A i \in 1..Len(pairs) : ~VenueMatches(pairs[i], unit.dex_name))
                 => /\ unit.result = _format_token_data(pairs[1])
                    /\ unit.result.dex_id = pairs[1].dexId

\* C24 witness: the venue name is in upper case, the first pair is of
\* another venue, and the snapshot is that of the second pair, Ekubo-V2
C24_Witness ==
    /\ Applied("get_token_data")
    /\ unit.dex_name = <<"E","K","U","B","O">>
    /\ ~Failed(unit.response)
    /\ Len(unit.response.body.pairs) = 2
    /\ unit.response.body.pairs[1].dexId = <<"j","e","d","i","s","w","a","p">>
    /\ unit.result # None
    /\ unit.result.dex_id = <<"E","k","u","b","o","-","V","2">>
    /\ unit.result.price_usd = Num(2, 0)


\* the pair get_token_data selects from a non-empty list of pairs
SelectedPair(pairs, dex_name) ==
    IF \E i \in 1..Len(pairs) : VenueMatches(pairs[i], dex_name)
    THEN pairs[CHOOSE i \in 1..Len(pairs) :
                  /\ VenueMatches(pairs[i], dex_name)
                  /\ \A j \in 1..(i - 1) : ~VenueMatches(pairs[j], dex_name)]
    ELSE pairs[1]

\* C25: snapshot coercion -- when the price of the selected pair is missing
\* or is not a number, the snapshot is still produced with a price of 0 and
\* the payload of the event is still built from it.
C25_SnapshotCoercion ==
    (/\ Applied("calculate_buy_metrics")
     /\ ~Failed(unit.response)
     /\ unit.response.body.pairs # <<>>)
       => LET pair == SelectedPair(unit.response.body.pairs, unit.token_config.dex_name)
          IN  /\ unit.result # EmptyDict
              /\ ("priceUsd" \notin DOMAIN pair \/ ~ToFloat(pair.priceUsd).ok)
                    => unit.result.current_price = Zero


(***************************************************************************)
(* Shutdown, the single loop and the registry (specification Spec).        *)
(***************************************************************************)
\* C26: cooperative shutdown -- a stop of the process never ends the
\* monitoring loop between the delivery of an alert and the recording of its
\* dedup entry, so it never leaves an event delivered but unrecorded.
C26_CooperativeShutdown ==
    [][Restart => ~(pc = "record" /\ send_result)]_vars


\* C27: single dispatch loop -- one sweep at a time: the dedup store is
\* written only by the step that records the event the loop is at, and
\* between the dedup check of an event and its record no other step checks
\* or records a pair, whatever commands arrive meanwhile.
C27_SingleDispatchLoop ==
    [][/\ last_transactions' # last_transactions
             => /\ pc = "record"
                /\ pc' = "event"
                /\ tx_idx' = tx_idx + 1
                /\ last_transactions' =
                      last_transactions (+) SetToBag({<<config.chat_id, metrics.tx_hash>>})
       /\ (pc = "record" /\ pc' = "record")
             => /\ last_transactions' = last_transactions
                /\ <<token_configs, cfg_idx, tx_idx, metrics>>'
                      = <<token_configs, cfg_idx, tx_idx, metrics>>
       /\ StartsSweep => (transactions = <<>> /\ metrics = EmptyDict)]_vars

\* C27 witness: an alert was delivered and is about to be recorded while the
\* destination was set up again and the other destination paused behind the
\* back of the sweep
C27_Witness ==
    /\ pc = "record"
    /\ send_result
    /\ config.chat_id = 1
    /\ group_configs[1] # config
    /\ PausedChats # {}
    /\ last_transactions # EmptyBag


(***************************************************************************)
(* Progress of a sweep (specification SpecLive).                           *)
(***************************************************************************)
\* a sweep is in progress
InSweep == pc \in {"config", "event", "alert", "record"}

\* C28: sweep progress -- every sweep that starts finishes (it reaches the
\* sleep that ends it, or the process is stopped), also when the delivery
\* endpoint never answers a request.
C28_SweepProgress ==
    InSweep ~> (pc \in {"sweep_sleep", "error_sleep", "read"})


\* C29: the registry is read-only for the core -- no step of the monitoring
\* loop (registry read, adapter, metrics, delivery, record) and no restart
\* changes the set of configs or a field of a config: every step that
\* moves the loop, touches one of its locals or writes the dedup store
\* leaves the registry as it was, so a step that changes the registry is a
\* command.
C29_RegistryReadOnly ==
    [][<<pc, locals, last_transactions, out_calls, fault, delivered>>'
             # <<pc, locals, last_transactions, out_calls, fault, delivered>>
          => group_configs' = group_configs]_vars

\* C29 witness: a sweep over both destinations has finished, with a failed
\* delivery recorded, and both configs are in the registry, one of them
\* paused
C29_Witness ==
    /\ pc = "sweep_sleep"
    /\ Len(token_configs) = 2
    /\ DOMAIN group_configs = Chats
    /\ PausedChats # {}
    /\ last_transactions # EmptyBag
    /\ delivered = {}


\* C30: registry invariant -- after any sequence of /setup, /pause and
\* /resume commands every stored config has total_supply > 0, a
\* min_buy_threshold that is a number >= 0, a non-empty token_address and
\* a token_symbol of 1 to 10 characters.
C30_RegistryInvariant ==
    \A c \in DOMAIN group_configs :
       /\ group_configs[c].total_supply > 0
       /\ group_configs[c].min_buy_threshold # None
       /\ group_configs[c].min_buy_threshold # NaN
       /\ ~NumNeg(group_configs[c].min_buy_threshold)
       /\ group_configs[c].token_address # <<>>
       /\ Len(group_configs[c].token_symbol) \in 1..MaxSymbolLen


(***************************************************************************)
(* The admin gate of /setup (specification SpecSetup).                     *)
(***************************************************************************)
\* C31: admin gate -- in a group or supergroup a /setup changes the stored
\* configuration only if the sender is the creator or an administrator of
\* the chat, also when the member lookup fails and returns nothing.
C31_AdminGate ==
    (/\ Applied("fast_setup_command")
     /\ unit.chat_type \in {"group", "supergroup"}
     /\ group_configs # <<>>)
       => unit.sender_status \in {"creator", "administrator"}


(***************************************************************************)
(* What the dedup store holds (specification Spec).                        *)
(***************************************************************************)
\* C32: events without a hash -- an event whose record carries no hash has
\* the empty hash, in the payload of its alert too; it is not looked up in
\* the dedup store (its alert is always sent) and not inserted into it, so
\* the store never holds a row with an empty hash.
C32_EmptyHashNeverStored ==
    [][/\ \A row \in BagToSet(last_transactions') : row[2] # ""
       /\ (/\ pc = "alert"
           /\ Get(metrics, "tx_hash", "") = ""
           /\ pc' \notin {"alert", "read"}) => pc' = "record"
       /\ (pc = "record" /\ Get(metrics, "tx_hash", "") = "")
             => last_transactions' = last_transactions
       /\ (pc = "event" /\ pc' = "alert")
             => metrics'.tx_hash = Get(transaction, "tx_hash", "")]_vars

\* C32 witness: the alert of an event without a hash was delivered, the
\* record step has passed, and the store is empty
C32_Witness ==
    /\ pc = "event"
    /\ tx_idx > 1
    /\ <<1, "">> \in delivered
    /\ last_transactions = EmptyBag


\* C33: recorded implies attempted -- a row enters the dedup store only in
\* the record step, which follows a send of the alert of that same pair
\* (delivered, or failed); an event filtered out as non-buy, below the
\* threshold or without snapshot never reaches the send and is never
\* recorded.
C33_RecordedImpliesAttempted ==
    [][/\ last_transactions' # last_transactions
             => /\ pc = "record"
                /\ BagToSet(last_transactions') \ BagToSet(last_transactions)
                      = {<<config.chat_id, metrics.tx_hash>>}
       /\ (pc # "record" /\ pc' = "record")
             => /\ pc = "alert"
                /\ <<token_configs, cfg_idx, metrics>>' = <<token_configs, cfg_idx, metrics>>
                /\ \/ send_result' /\ <<config.chat_id, metrics.tx_hash>> \in delivered'
                   \/ ~send_result' /\ fault' = "delivery"
       /\ pc = "event" => last_transactions' = last_transactions
       /\ (pc = "event" /\ pc' = "alert")
             => /\ Get(transaction, "type", "") = "buy"
                /\ ThresholdMet(transaction, config)
                /\ metrics' # EmptyDict]_vars

\* C33 witness: the send for (1, h1) was attempted and failed, the pair is
\* in the store all the same, and the loop is past the record
C33_Witness ==
    /\ pc = "event"
    /\ tx_idx > 1
    /\ BagIn(<<1, "h1">>, last_transactions)
    /\ <<1, "h1">> \notin delivered


(***************************************************************************)
(* The dedup store is keyed by destination (specification SpecDb).         *)
(***************************************************************************)
\* C34: dedup is per destination -- add_transaction(d1, h) never changes
\* the result of is_transaction_processed(d2, h) for another destination
\* d2, and a pair that is not in the store is accepted whatever the other
\* destinations recorded, so each destination records the same hash once.
C34_DedupPerDestination ==
    [][Get(unit', "op", "") = "add_transaction"
          => /\ \A chat_id \in Chats \ {unit'.chat_id} : \A tx_hash \in DbHashes :
                   is_transaction_processed(last_transactions', chat_id, tx_hash)
                      = is_transaction_processed(last_transactions, chat_id, tx_hash)
             /\ unit'.result
                   = ~is_transaction_processed(last_transactions, unit'.chat_id, unit'.tx_hash)
             /\ is_transaction_processed(last_transactions', unit'.chat_id, unit'.tx_hash)]_vars

\* C34 witness: (2, h1) was accepted after (1, h1), and both are recorded
C34_Witness ==
    /\ Get(unit, "op", "") = "add_transaction"
    /\ unit.chat_id = 2
    /\ unit.tx_hash = "h1"
    /\ unit.result
    /\ BagIn(<<1, "h1">>, last_transactions)
    /\ BagIn(<<2, "h1">>, last_transactions)


(***************************************************************************)
(* The polling offset (specification SpecPoll).                            *)
(***************************************************************************)
\* C35: polling offset -- last_update_id never decreases; when a batch has
\* been handled it is the largest update_id received so far and every
\* update of the batch was handled, in order, also those after an update
\* whose handler raised; the request that follows uses the offset
\* last_update_id + 1; and the loop goes on after every round.
C35_PollingOffset ==
    [][/\ unit'.last_update_id >= unit.last_update_id
       /\ (unit.phase = "handle" /\ unit'.phase = "sleep")
             => /\ unit'.last_update_id = unit'.largest
                /\ unit'.handled = [i \in 1..Len(unit.batch) |-> unit.batch[i].update_id]
                /\ unit'.wait = PollInterval
       /\ (unit.phase = "request" /\ unit.largest > 0)
             => unit'.offset = unit.last_update_id + 1
       /\ (unit.phase = "handle" /\ unit.idx <= Len(unit.batch))
             => (unit'.phase = "handle" /\ unit'.idx = unit.idx + 1)
       /\ unit.phase = "sleep" => unit'.phase = "request"]_vars

\* C35 witness: a batch of two was handled whose first update, with the
\* larger id, made its handler raise, and whose second, a /pause, took
\* effect
C35_Witness ==
    /\ unit.phase = "sleep"
    /\ Len(unit.batch) = 2
    /\ unit.batch[1] = [update_id |-> 3, kind |-> "malformed"]
    /\ unit.batch[2] = [update_id |-> 1, kind |-> "pause"]
    /\ unit.handled = <<3, 1>>
    /\ unit.last_update_id = 3
    /\ unit.offset = None
    /\ ~group_configs[1].is_active

====
